---- MODULE Spec2Model ----
(***************************************************************************)
(* Verification model of celestia-zk-da: sparse Merkle trie, state store,  *)
(* guest verifier, chain verifier and node orchestrator.                   *)
(*                                                                         *)
(* Hashing (SHA-256) is modelled as a free, injective constructor: a hash  *)
(* is the tuple of its tag and preimage parts.  Byte vectors are modelled  *)
(* as sequences of 64-bit little-endian words.  Option<T> is a sequence of *)
(* length at most one: None is <<>> and Some(x) is <<x>>.                  *)
(***************************************************************************)
EXTENDS Integers, Sequences, FiniteSets, TLC

\* ------------------------------------------------------------------ bounds
\* Tree depth of the model (the program uses 160, merkle/src/lib.rs:14).
TREE_DEPTH == 2
\* Bits of a key hash beyond the tree depth (the program has 256 - 160).
TailBits == 1
\* Longest witness chain explored on the bare trie.
MaxChain == 2
\* Longest batch handed to apply_batch.
MaxBatch == 2
\* Largest transition index explored.
MaxIndex == 2
\* Width in bits of the model's u64 words.
WordBits == 2
\* Longest witness list handed to the guest.
MaxWitnesses == 2
\* Most blobs in a verified DA range.
MaxBlobs == 3
\* Failed or cancelled apply_transition calls and restarts of one node.
MaxFaults == 1
\* Most operations one sdk Context records before it is replaced.
MaxCtxOps == 3

None == <<>>
Some(x) == <<x>>

\* ---------------------------------------------------------- hash primitives
EMPTY_HASH == <<"Z">>

hash_nodes(left, right) == <<"N", left, right>>

hash_leaf(key, value) == <<"L", key, value>>

KeyBits == TREE_DEPTH + TailBits

\* All key hashes: bit strings, position 0 (index 1) is the most significant.
KeyHashes == [1..KeyBits -> {0, 1}]

\* Application keys and their SHA-256 key hashes.  The map is injective on
\* the first TREE_DEPTH bits (collision resistance of the truncated hash).
Keys == {"k0", "k1", "k2"}

\* The last case is the key a caller may pass that is spelled like the
\* store's reserved name for the serialized trie.
KeyIndex(key) == CASE key = "k0" -> 0 [] key = "k1" -> 1 [] key = "k2" -> 2
                   [] key = "__merkle_tree__" -> 3

hash_key(key) ==
    [i \in 1..KeyBits |->
        IF i <= TREE_DEPTH
        THEN (KeyIndex(key) \div (2 ^ (TREE_DEPTH - i))) % 2
        ELSE 0]

get_bit(hash, position) == hash[position + 1] = 1

\* Values: byte vectors as word sequences.
Values == {<<7>>, <<5, 0>>}

\* ------------------------------------------------------ witnesses and proofs
RECURSIVE FoldSiblings(_, _, _, _)
FoldSiblings(key, current, siblings, i) ==
    IF i >= Len(siblings) THEN current
    ELSE LET depth == TREE_DEPTH - 1 - i
             sibling == siblings[i + 1]
         IN FoldSiblings(key,
                IF get_bit(key, depth) THEN hash_nodes(sibling, current)
                                       ELSE hash_nodes(current, sibling),
                siblings, i + 1)

\* compute_root over (key, value?, siblings); more than TREE_DEPTH siblings
\* underflow the depth and the bit lookup panics.
PANIC == <<"PANIC">>

WitnessRoot(key, value, siblings) ==
    IF Len(siblings) > TREE_DEPTH THEN PANIC
    ELSE FoldSiblings(key,
            IF value = None THEN EMPTY_HASH ELSE hash_leaf(key, value[1]),
            siblings, 0)

compute_old_root(w) == WitnessRoot(w.key, w.old_value, w.siblings)

compute_new_root(w) == WitnessRoot(w.key, w.new_value, w.siblings)

proof_compute_root(p) == WitnessRoot(p.key, p.value, p.siblings)

proof_verify(p, root) == proof_compute_root(p) = root

\* ------------------------------------------------------------- sparse trie
RECURSIVE empty_hashes(_)
empty_hashes(i) ==
    IF i = TREE_DEPTH THEN EMPTY_HASH
    ELSE LET below == empty_hashes(i + 1) IN hash_nodes(below, below)

PathOf(k) == SubSeq(k, 1, TREE_DEPTH)

Present(leaves) == {k \in KeyHashes : leaves[k] # None}

\* One round of the bottom-up pass of compute_root: level maps the paths of
\* length depth+1 to hashes, the result maps their parents.
ParentLevel(level, depth) ==
    LET parents == {SubSeq(p, 1, depth) : p \in DOMAIN level}
        child(pp, bit) == pp \o <<bit>>
        side(pp, bit) == IF child(pp, bit) \in DOMAIN level
                         THEN level[child(pp, bit)]
                         ELSE empty_hashes(depth + 1)
    IN [pp \in parents |-> hash_nodes(side(pp, 0), side(pp, 1))]

RECURSIVE LevelsUp(_, _)
LevelsUp(level, depth) ==
    IF depth < 0 THEN level
    ELSE LevelsUp(ParentLevel(level, depth), depth - 1)

tree_compute_root(leaves) ==
    LET present == Present(leaves) IN
    IF present = {} THEN empty_hashes(0)
    ELSE LET paths == {PathOf(k) : k \in present}
             leafLevel == [p \in paths |->
                 LET k == CHOOSE k \in present : PathOf(k) = p
                 IN hash_leaf(k, leaves[k][1])]
             top == LevelsUp(leafLevel, TREE_DEPTH - 1)
         IN top[<<>>]

root(t) == IF t.cached_root # None THEN t.cached_root[1]
           ELSE tree_compute_root(t.leaves)

\* entries: set of [path, hash] of the leaves other than the target key.
RECURSIVE compute_subtree_from_leaves(_, _)
compute_subtree_from_leaves(entries, depth) ==
    IF depth = TREE_DEPTH
    THEN IF entries = {} THEN EMPTY_HASH
         ELSE (CHOOSE e \in entries : TRUE).hash
    ELSE IF entries = {} THEN empty_hashes(depth)
    ELSE LET left_leaves == {e \in entries : e.path[depth + 1] = 0}
             right_leaves == {e \in entries : e.path[depth + 1] = 1}
             left_hash == IF left_leaves = {} THEN empty_hashes(depth + 1)
                          ELSE compute_subtree_from_leaves(left_leaves, depth + 1)
             right_hash == IF right_leaves = {} THEN empty_hashes(depth + 1)
                           ELSE compute_subtree_from_leaves(right_leaves, depth + 1)
         IN hash_nodes(left_hash, right_hash)

compute_subtree_hash(entries, prefix, direction, depth) ==
    LET matching == {e \in entries :
            /\ Len(e.path) > depth
            /\ SubSeq(e.path, 1, Len(prefix)) = prefix
            /\ e.path[Len(prefix) + 1] = direction}
    IN IF matching = {} THEN empty_hashes(depth + 1)
       ELSE compute_subtree_from_leaves(matching, depth + 1)

compute_siblings(leaves, key_hash) ==
    LET target_path == PathOf(key_hash)
        leaf_entries == {[path |-> PathOf(k), hash |-> hash_leaf(k, leaves[k][1])] :
                            k \in Present(leaves) \ {key_hash}}
    IN [i \in 1..TREE_DEPTH |->
            LET depth == TREE_DEPTH - i
            IN compute_subtree_hash(leaf_entries,
                                    SubSeq(target_path, 1, depth),
                                    1 - target_path[depth + 1],
                                    depth)]

SparseMerkleTree_new ==
    [leaves |-> [k \in KeyHashes |-> None], cached_root |-> Some(empty_hashes(0))]

get_by_hash(t, key_hash) == t.leaves[key_hash]

\* An insert that reads the old value only after writing the new one.
insert_witness_read_after_write(t, key_hash, value) ==
    [key |-> key_hash, old_value |-> Some(value),
     new_value |-> Some(value), siblings |-> compute_siblings(t.leaves, key_hash)]

\* An insert that returns early when the key already holds the value, with
\* no siblings.
insert_witness_unchanged_shortcut(t, key_hash, value) ==
    IF t.leaves[key_hash] = Some(value)
    THEN [key |-> key_hash, old_value |-> Some(value), new_value |-> Some(value),
          siblings |-> <<>>]
    ELSE [key |-> key_hash, old_value |-> t.leaves[key_hash],
          new_value |-> Some(value), siblings |-> compute_siblings(t.leaves, key_hash)]

insert_witness(t, key_hash, value) ==
    [key |-> key_hash, old_value |-> t.leaves[key_hash],
     new_value |-> Some(value), siblings |-> compute_siblings(t.leaves, key_hash)]

\* An insert that keeps the cached root of the trie it changed.
insert_by_hash_keeps_cache(t, key_hash, value) ==
    [leaves |-> [t.leaves EXCEPT ![key_hash] = Some(value)],
     cached_root |-> Some(root(t))]

insert_by_hash(t, key_hash, value) ==
    [leaves |-> [t.leaves EXCEPT ![key_hash] = Some(value)], cached_root |-> None]

\* A delete that returns early for an absent key, with no siblings.
delete_witness_absent_shortcut(t, key_hash) ==
    IF t.leaves[key_hash] = None
    THEN [key |-> key_hash, old_value |-> None, new_value |-> None, siblings |-> <<>>]
    ELSE [key |-> key_hash, old_value |-> t.leaves[key_hash],
          new_value |-> None, siblings |-> compute_siblings(t.leaves, key_hash)]

delete_witness(t, key_hash) ==
    [key |-> key_hash, old_value |-> t.leaves[key_hash],
     new_value |-> None, siblings |-> compute_siblings(t.leaves, key_hash)]

\* A delete that keeps the cached root of the trie it changed.
delete_by_hash_keeps_cache(t, key_hash) ==
    [leaves |-> [t.leaves EXCEPT ![key_hash] = None], cached_root |-> Some(root(t))]

delete_by_hash(t, key_hash) ==
    [leaves |-> [t.leaves EXCEPT ![key_hash] = None], cached_root |-> None]

\* A proof whose siblings are listed from the root down to the leaf.
get_proof_by_hash_root_first(t, key_hash) ==
    [key |-> key_hash, value |-> t.leaves[key_hash],
     siblings |-> [i \in 1..TREE_DEPTH |->
                      compute_siblings(t.leaves, key_hash)[TREE_DEPTH + 1 - i]]]

get_proof_by_hash(t, key_hash) ==
    [key |-> key_hash, value |-> t.leaves[key_hash],
     siblings |-> compute_siblings(t.leaves, key_hash)]

\* The same computations for a leaves map that may hold key hashes with a
\* common path.  iter lists the stored key hashes in the order in which the
\* HashMap iterates them, which the process's hasher seed decides.

\* compute_root: collecting (path, leaf hash) pairs into a map keeps, for
\* each path, the pair of the key hash that comes last in the iteration.
compute_root_ordered(leaves, iter) ==
    IF iter = <<>> THEN empty_hashes(0)
    ELSE LET paths == {PathOf(iter[i]) : i \in 1..Len(iter)}
             lastOf(p) == CHOOSE i \in 1..Len(iter) :
                             /\ PathOf(iter[i]) = p
                             /\ \A j \in (i + 1)..Len(iter) : PathOf(iter[j]) # p
             leafLevel == [p \in paths |->
                 hash_leaf(iter[lastOf(p)], leaves[iter[lastOf(p)]][1])]
             top == LevelsUp(leafLevel, TREE_DEPTH - 1)
         IN top[<<>>]

root_ordered(t, iter) == IF t.cached_root # None THEN t.cached_root[1]
                         ELSE compute_root_ordered(t.leaves, iter)

\* compute_siblings: the entries are the other leaves in iteration order,
\* and compute_subtree_from_leaves takes the first entry left at leaf level.
compute_siblings_ordered(leaves, iter, key_hash) ==
    LET target_path == PathOf(key_hash)
        others == SelectSeq(iter, LAMBDA k : k # key_hash)
        firsts == {i \in 1..Len(others) :
                      \A j \in 1..(i - 1) : PathOf(others[j]) # PathOf(others[i])}
        leaf_entries == {[path |-> PathOf(others[i]),
                          hash |-> hash_leaf(others[i], leaves[others[i]][1])] :
                            i \in firsts}
    IN [i \in 1..TREE_DEPTH |->
            LET depth == TREE_DEPTH - i
            IN compute_subtree_hash(leaf_entries,
                                    SubSeq(target_path, 1, depth),
                                    1 - target_path[depth + 1],
                                    depth)]

get_proof_by_hash_ordered(t, iter, key_hash) ==
    [key |-> key_hash, value |-> t.leaves[key_hash],
     siblings |-> compute_siblings_ordered(t.leaves, iter, key_hash)]

\* verify_witnesses: Ok(root) or Err.
RECURSIVE verify_witnesses_from(_, _, _)
verify_witnesses_from(current_root, witnesses, i) ==
    IF i > Len(witnesses) THEN [ok |-> TRUE, root |-> current_root]
    ELSE IF compute_old_root(witnesses[i]) # current_root
         THEN [ok |-> FALSE, root |-> current_root]
         ELSE verify_witnesses_from(compute_new_root(witnesses[i]), witnesses, i + 1)

verify_witnesses(prev_root, witnesses) == verify_witnesses_from(prev_root, witnesses, 1)

\* -------------------------------------------------------------- state store
\* Little-endian u64 / 32-byte key as one word.
RECURSIVE BitsToNat(_, _)
BitsToNat(bits, n) ==
    IF n = 0 THEN 0 ELSE 2 * BitsToNat(bits, n - 1) + bits[n]

KeyWord(key_hash) == BitsToNat(key_hash, KeyBits)

WordKey(w) == [i \in 1..KeyBits |-> (w \div (2 ^ (KeyBits - i))) % 2]

\* HashMap iteration order of the leaves (any order; a fixed one is used,
\* deserialize does not depend on it).
RECURSIVE SeqOfSet(_)
SeqOfSet(S) ==
    IF S = {} THEN <<>>
    ELSE LET m == CHOOSE x \in S : \A y \in S : KeyWord(x) <= KeyWord(y)
         IN <<m>> \o SeqOfSet(S \ {m})

RECURSIVE EncodeEntries(_, _)
EncodeEntries(leaves, ks) ==
    IF ks = <<>> THEN <<>>
    ELSE LET k == Head(ks)
             v == leaves[k][1]
         IN <<KeyWord(k), Len(v)>> \o v \o EncodeEntries(leaves, Tail(ks))

\* SparseMerkleTree::serialize: bincode of Vec<(Hash32, Vec<u8>)>.
tree_serialize(t) ==
    LET ks == SeqOfSet(Present(t.leaves))
    IN <<Len(ks)>> \o EncodeEntries(t.leaves, ks)

\* Parses n entries from data starting at word pos into leaves; Err on
\* truncated input or a key out of range.
RECURSIVE DecodeEntries(_, _, _, _)
DecodeEntries(data, pos, n, leaves) ==
    IF n = 0 THEN [ok |-> TRUE, leaves |-> leaves]
    ELSE IF pos + 1 > Len(data) THEN [ok |-> FALSE, leaves |-> leaves]
    ELSE LET kw == data[pos]
             vlen == data[pos + 1]
         IN IF kw >= 2 ^ KeyBits \/ pos + 1 + vlen > Len(data)
            THEN [ok |-> FALSE, leaves |-> leaves]
            ELSE DecodeEntries(data, pos + 2 + vlen, n - 1,
                    [leaves EXCEPT ![WordKey(kw)] =
                        Some(SubSeq(data, pos + 2, pos + 1 + vlen))])

\* SparseMerkleTree::deserialize
tree_deserialize(data) ==
    IF Len(data) = 0 THEN [ok |-> FALSE, tree |-> SparseMerkleTree_new]
    ELSE LET r == DecodeEntries(data, 2, data[1], SparseMerkleTree_new.leaves)
         IN [ok |-> r.ok,
             tree |-> [leaves |-> r.leaves, cached_root |-> None]]

MERKLE_TREE_KEY == "__merkle_tree__"
TRANSITION_INDEX_KEY == "__transition_index__"
DbKeys == Keys \cup {MERKLE_TREE_KEY, TRANSITION_INDEX_KEY}

EmptyDb == [k \in DbKeys |-> None]

\* State operations of a batch.
OpInsert(key, value) == [op |-> "Insert", key |-> key, value |-> value]
OpDelete(key) == [op |-> "Delete", key |-> key, value |-> <<>>]
StateOps == {OpInsert(k, v) : k \in Keys, v \in Values} \cup {OpDelete(k) : k \in Keys}

\* StateStore::in_memory
StateStore_in_memory ==
    [db |-> EmptyDb, tree |-> SparseMerkleTree_new, transition_index |-> 0]

\* An open that starts from a new trie whatever the database holds.
StateStore_open_new_tree(db) ==
    [ok |-> TRUE,
     store |-> [db |-> db, tree |-> SparseMerkleTree_new,
                transition_index |-> IF db[TRANSITION_INDEX_KEY] # None
                                     THEN db[TRANSITION_INDEX_KEY][1][1] ELSE 0]]

\* StateStore::open on a directory holding db; Err when the persisted trie
\* does not deserialize.
StateStore_open(db) ==
    LET td == IF db[MERKLE_TREE_KEY] # None
              THEN tree_deserialize(db[MERKLE_TREE_KEY][1])
              ELSE [ok |-> TRUE, tree |-> SparseMerkleTree_new]
        idx == IF db[TRANSITION_INDEX_KEY] # None
               THEN IF Len(db[TRANSITION_INDEX_KEY][1]) = 1
                    THEN db[TRANSITION_INDEX_KEY][1][1] ELSE 0
               ELSE 0
    IN [ok |-> td.ok,
        store |-> [db |-> db, tree |-> td.tree, transition_index |-> idx]]

store_root(s) == root(s.tree)

get_raw(s, key) == s.db[key]

get_with_proof(s, key) ==
    [value |-> get_by_hash(s.tree, hash_key(key)),
     proof |-> get_proof_by_hash(s.tree, hash_key(key))]

\* One operation of a batch: insert_raw or delete, db first, then the trie.
store_apply_op(s, op) ==
    IF op.op = "Insert"
    THEN [s EXCEPT !.db = [@ EXCEPT ![op.key] = Some(op.value)],
                   !.tree = insert_by_hash(s.tree, hash_key(op.key), op.value)]
    ELSE [s EXCEPT !.db = [@ EXCEPT ![op.key] = None],
                   !.tree = delete_by_hash(s.tree, hash_key(op.key))]

\* A batch loop that collects each witness after applying its operation.
store_op_witness_after_apply(s, op) ==
    IF op.op = "Insert"
    THEN insert_witness(store_apply_op(s, op).tree, hash_key(op.key), op.value)
    ELSE delete_witness(store_apply_op(s, op).tree, hash_key(op.key))

store_op_witness(s, op) ==
    IF op.op = "Insert"
    THEN insert_witness(s.tree, hash_key(op.key), op.value)
    ELSE delete_witness(s.tree, hash_key(op.key))

\* A batch loop whose operations update the trie before the durable map:
\* the operation the map fails on is already in the trie.
RECURSIVE apply_batch_from_trie_first(_, _, _, _, _)
apply_batch_from_trie_first(s, ops, i, fail_at, witnesses) ==
    IF i > Len(ops) THEN [ok |-> TRUE, store |-> s, witnesses |-> witnesses]
    ELSE IF i = fail_at
    THEN [ok |-> FALSE, store |-> [s EXCEPT !.tree = store_apply_op(s, ops[i]).tree],
          witnesses |-> <<>>]
    ELSE apply_batch_from_trie_first(store_apply_op(s, ops[i]), ops, i + 1, fail_at,
                                     Append(witnesses, store_op_witness(s, ops[i])))

\* apply_batch; fail_at = i > 0 makes the durable map fail on operation i
\* (sled error), 0 lets every operation succeed.
RECURSIVE apply_batch_from(_, _, _, _, _)
apply_batch_from(s, ops, i, fail_at, witnesses) ==
    IF i > Len(ops) THEN [ok |-> TRUE, store |-> s, witnesses |-> witnesses]
    ELSE IF i = fail_at THEN [ok |-> FALSE, store |-> s, witnesses |-> <<>>]
    ELSE apply_batch_from(store_apply_op(s, ops[i]), ops, i + 1, fail_at,
                          Append(witnesses, store_op_witness(s, ops[i])))

\* A batch applied from its last operation to its first.
apply_batch_last_first(s, ops, fail_at) ==
    apply_batch_from(s, [i \in 1..Len(ops) |-> ops[Len(ops) + 1 - i]], 1, fail_at, <<>>)

apply_batch(s, ops, fail_at) == apply_batch_from(s, ops, 1, fail_at, <<>>)

\* commit that persists the trie and the index but leaves the in-memory
\* transition_index as it was.
commit_without_increment(s, fail) ==
    LET s2 == [s EXCEPT !.db = [@ EXCEPT ![MERKLE_TREE_KEY] = Some(tree_serialize(s.tree))]]
        s3 == [s2 EXCEPT !.db = [@ EXCEPT ![TRANSITION_INDEX_KEY] = Some(<<s.transition_index>>)]]
    IN CASE fail = 1 -> [ok |-> FALSE, store |-> s, root |-> EMPTY_HASH]
         [] fail = 2 -> [ok |-> FALSE, store |-> s2, root |-> EMPTY_HASH]
         [] fail = 3 -> [ok |-> FALSE, store |-> s3, root |-> EMPTY_HASH]
         [] OTHER    -> [ok |-> TRUE, store |-> s3, root |-> store_root(s3)]

\* commit that returns at once, without a new index, when the durable map
\* already holds the serialized trie.
commit_skips_unchanged(s, fail) ==
    LET s1 == [s EXCEPT !.transition_index = @ + 1]
        s2 == [s1 EXCEPT !.db = [@ EXCEPT ![MERKLE_TREE_KEY] = Some(tree_serialize(s1.tree))]]
        s3 == [s2 EXCEPT !.db = [@ EXCEPT ![TRANSITION_INDEX_KEY] = Some(<<s1.transition_index>>)]]
    IN IF s.db[MERKLE_TREE_KEY] = Some(tree_serialize(s.tree))
       THEN [ok |-> TRUE, store |-> s, root |-> store_root(s)]
       ELSE CASE fail = 1 -> [ok |-> FALSE, store |-> s1, root |-> EMPTY_HASH]
              [] fail = 2 -> [ok |-> FALSE, store |-> s2, root |-> EMPTY_HASH]
              [] fail = 3 -> [ok |-> FALSE, store |-> s3, root |-> EMPTY_HASH]
              [] OTHER    -> [ok |-> TRUE, store |-> s3, root |-> store_root(s3)]

\* commit; fail = 0 succeeds, 1 fails the trie insert, 2 the index insert,
\* 3 the flush.
commit(s, fail) ==
    LET s1 == [s EXCEPT !.transition_index = @ + 1]
        s2 == [s1 EXCEPT !.db = [@ EXCEPT ![MERKLE_TREE_KEY] = Some(tree_serialize(s1.tree))]]
        s3 == [s2 EXCEPT !.db = [@ EXCEPT ![TRANSITION_INDEX_KEY] = Some(<<s1.transition_index>>)]]
    IN CASE fail = 1 -> [ok |-> FALSE, store |-> s1, root |-> EMPTY_HASH]
         [] fail = 2 -> [ok |-> FALSE, store |-> s2, root |-> EMPTY_HASH]
         [] fail = 3 -> [ok |-> FALSE, store |-> s3, root |-> EMPTY_HASH]
         [] OTHER    -> [ok |-> TRUE, store |-> s3, root |-> store_root(s3)]

\* u64 arithmetic; the word width is scaled down from 64 bits.
U64_MOD == 2 ^ WordBits
U64_MAX == U64_MOD - 1

\* ----------------------------------------------------------------- sdk
\* Context::new
Context_new(s) == [store |-> s, operations |-> <<>>, witnesses |-> <<>>]

\* Context::set on a u64 (bincode of the value, then set_raw)
Context_set(c, key, value) ==
    LET op == OpInsert(key, <<value>>)
    IN [store |-> store_apply_op(c.store, op),
        operations |-> Append(c.operations, op),
        witnesses |-> Append(c.witnesses, store_op_witness(c.store, op))]

\* Context::get of a u64: the durable map's bytes, deserialized.
Context_get(c, key) ==
    IF get_raw(c.store, key) = None THEN None ELSE Some(get_raw(c.store, key)[1][1])

Accounts == {"alice", "bob"}

\* accounts::balance_key: "balance:" and the account name, one application
\* key per account.
balance_key(account) == CASE account = "alice" -> "k0" [] account = "bob" -> "k1"

get_balance(c, account) ==
    IF Context_get(c, balance_key(account)) = None THEN 0
    ELSE Context_get(c, balance_key(account))[1]

set_balance(c, account, balance) == Context_set(c, balance_key(account), balance)

\* accounts::transfer.  to_balance + amount is a u64 addition: it wraps, or
\* with overflow checks compiled in it panics after from was debited.
transfer(c, from, to, amount, overflow_checks) ==
    LET from_balance == get_balance(c, from)
        to_balance == get_balance(c, to)
        c1 == set_balance(c, from, from_balance - amount)
    IN IF from_balance < amount
       THEN [ok |-> FALSE, panic |-> FALSE, ctx |-> c]
       ELSE IF to_balance + amount > U64_MAX /\ overflow_checks
       THEN [ok |-> FALSE, panic |-> TRUE, ctx |-> c1]
       ELSE [ok |-> TRUE, panic |-> FALSE,
             ctx |-> set_balance(c1, to, (to_balance + amount) % U64_MOD)]

NoSdkCall == [call |-> "none", ok |-> TRUE, from |-> "", to |-> "", amount |-> 0,
              before |-> [a \in Accounts |-> 0]]

\* ------------------------------------------------------------ guest verifier

\* Account::decode (bincode, trailing bytes allowed): two u64 words.
Account_decode(data) ==
    IF Len(data) >= 2 THEN Some([balance |-> data[1], nonce |-> data[2]]) ELSE None

Account_encode(balance, nonce) == <<balance, nonce>>

\* The guest's own copy of compute_root (zk_guest_transition).
RECURSIVE guest_fold(_, _, _, _)
guest_fold(key, current, siblings, i) ==
    IF i >= Len(siblings) THEN current
    ELSE LET depth == TREE_DEPTH - 1 - i
             sibling == siblings[i + 1]
         IN guest_fold(key,
                IF get_bit(key, depth) THEN hash_nodes(sibling, current)
                                       ELSE hash_nodes(current, sibling),
                siblings, i + 1)

guest_compute_root(key, value, siblings) ==
    IF Len(siblings) > TREE_DEPTH THEN PANIC
    ELSE guest_fold(key,
            IF value = None THEN EMPTY_HASH ELSE hash_leaf(key, value[1]),
            siblings, 0)

hash_public_inputs(prev_root, public_inputs) == <<"H", prev_root, public_inputs>>

\* verify_transfer of the guest (defined but not called by verify_operation).
verify_transfer(from_old, from_new, to_old, to_new, amount) ==
    /\ from_old.balance >= amount
    /\ from_new.balance = from_old.balance - amount
    /\ to_new.balance = (to_old.balance + amount) % U64_MOD
    /\ from_new.nonce = (from_old.nonce + 1) % U64_MOD
    /\ to_new.nonce = to_old.nonce

\* Outcome of verify_operation: "true", "false" or "panic" (arithmetic
\* overflow when the guest is built with overflow checks).
verify_operation(op, witnesses, overflow_checks) ==
    LET t == op.op_type IN
    CASE t.tag = "Set" -> "true"
      [] t.tag = "CreateAccount" ->
            IF op.new_value # None /\ Account_decode(op.new_value[1]) # None
            THEN LET account == Account_decode(op.new_value[1])[1]
                 IN IF account.balance = t.amount /\ account.nonce = 0
                    THEN "true" ELSE "false"
            ELSE "false"
      [] t.tag = "Transfer" ->
            \* from_witness: the first witness with both an old and a new value
            LET found == {i \in 1..Len(witnesses) :
                            witnesses[i].old_value # None /\ witnesses[i].new_value # None}
            IN IF found # {}
               THEN LET fw == witnesses[CHOOSE i \in found : \A j \in found : i <= j]
                        old_acc == Account_decode(fw.old_value[1])
                        new_acc == Account_decode(fw.new_value[1])
                    IN IF /\ old_acc # None /\ new_acc # None
                          /\ old_acc[1].balance >= t.amount
                          /\ new_acc[1].balance = old_acc[1].balance - t.amount
                       THEN "true"
                       ELSE "true"   \* falls through to the final `true`
               ELSE "true"
      [] t.tag = "Mint" ->
            IF /\ op.old_value # None /\ op.new_value # None
               /\ Account_decode(op.old_value[1]) # None
               /\ Account_decode(op.new_value[1]) # None
            THEN LET old_acc == Account_decode(op.old_value[1])[1]
                     new_acc == Account_decode(op.new_value[1])[1]
                 IN IF old_acc.balance + t.amount >= U64_MOD /\ overflow_checks
                    THEN "panic"
                    ELSE IF new_acc.balance = (old_acc.balance + t.amount) % U64_MOD
                         THEN "true" ELSE "false"
            ELSE "false"
      [] t.tag = "Burn" ->
            IF /\ op.old_value # None /\ op.new_value # None
               /\ Account_decode(op.old_value[1]) # None
               /\ Account_decode(op.new_value[1]) # None
            THEN LET old_acc == Account_decode(op.old_value[1])[1]
                     new_acc == Account_decode(op.new_value[1])[1]
                 IN IF old_acc.balance >= t.amount
                       /\ new_acc.balance = old_acc.balance - t.amount
                    THEN "true" ELSE "false"
            ELSE "false"

\* The witness loop of main: Ok(final root) or abort.
RECURSIVE guest_witness_loop(_, _, _)
guest_witness_loop(current_root, witnesses, i) ==
    IF i > Len(witnesses) THEN [ok |-> TRUE, root |-> current_root]
    ELSE LET w == witnesses[i]
             computed_old_root == guest_compute_root(w.key, w.old_value, w.siblings)
         IN IF computed_old_root # current_root
            THEN [ok |-> FALSE, root |-> current_root]
            ELSE guest_witness_loop(
                    guest_compute_root(w.key, w.new_value, w.siblings),
                    witnesses, i + 1)

NoOutput == [prev_root |-> EMPTY_HASH, new_root |-> EMPTY_HASH,
             public_inputs_hash |-> EMPTY_HASH, public_outputs |-> <<>>]

\* A guest that folds the witnesses without asserting that each one starts
\* at the running root.
guest_main_unasserted(input, overflow_checks) ==
    LET ops_valid == \A i \in 1..Len(input.operations) :
            verify_operation(input.operations[i], input.witnesses, overflow_checks) = "true"
        last == IF input.witnesses = <<>> THEN input.prev_root
                ELSE LET w == input.witnesses[Len(input.witnesses)]
                     IN guest_compute_root(w.key, w.new_value, w.siblings)
    IN IF ops_valid
       THEN [committed |-> TRUE,
             output |-> [prev_root |-> input.prev_root,
                         new_root |-> last,
                         public_inputs_hash |->
                             hash_public_inputs(input.prev_root, input.public_inputs),
                         public_outputs |-> <<>>]]
       ELSE [committed |-> FALSE, output |-> NoOutput]

\* A guest whose committed public-inputs hash also absorbs private_inputs.
guest_main_hashes_private(input, overflow_checks) ==
    LET ops_valid == \A i \in 1..Len(input.operations) :
            verify_operation(input.operations[i], input.witnesses, overflow_checks) = "true"
        chain == guest_witness_loop(input.prev_root, input.witnesses, 1)
    IN IF ops_valid /\ chain.ok
       THEN [committed |-> TRUE,
             output |-> [prev_root |-> input.prev_root,
                         new_root |-> chain.root,
                         public_inputs_hash |->
                             hash_public_inputs(input.prev_root,
                                 input.public_inputs \o input.private_inputs),
                         public_outputs |-> <<>>]]
       ELSE [committed |-> FALSE, output |-> NoOutput]

\* main of the guest: the committed TransitionOutput, or an abort.
guest_main(input, overflow_checks) ==
    LET ops_valid == \A i \in 1..Len(input.operations) :
            verify_operation(input.operations[i], input.witnesses, overflow_checks) = "true"
        chain == guest_witness_loop(input.prev_root, input.witnesses, 1)
    IN IF ops_valid /\ chain.ok
       THEN [committed |-> TRUE,
             output |-> [prev_root |-> input.prev_root,
                         new_root |-> chain.root,
                         public_inputs_hash |->
                             hash_public_inputs(input.prev_root, input.public_inputs),
                         public_outputs |-> <<>>]]
       ELSE [committed |-> FALSE, output |-> NoOutput]

\* -------------------------------------------------- blob schema and proofs
SCHEMA_VERSION == 1

\* program_hash(): SHA-256 of the guest ELF.
program_hash == <<"ELF">>

\* TransitionBlobV1::new
TransitionBlobV1_new(app_id, sequence, prev_root, new_root, public_inputs, proof, ph) ==
    [version |-> SCHEMA_VERSION, app_id |-> app_id, sequence |-> sequence,
     prev_root |-> prev_root, new_root |-> new_root,
     public_inputs |-> public_inputs, public_outputs |-> <<>>,
     proof |-> proof, program_hash |-> ph,
     timestamp |-> None, sequencer_signature |-> None]

with_timestamp(blob, ts) == [blob EXCEPT !.timestamp = Some(ts)]

\* bincode of Vec<u8>: the length, then the elements.
WriteVec(v) == <<Len(v)>> \o v

\* bincode of Option<u64>: tag 0, or tag 1 and the value.
WriteOption(o) == IF o = None THEN <<0>> ELSE <<1, o[1]>>

\* bincode of Option<Vec<u8>>
WriteOptionVec(o) == IF o = None THEN <<0>> ELSE <<1>> \o WriteVec(o[1])

\* An encoder that writes a timestamp without its Option tag.
blob_encode_untagged_timestamp(b) ==
    <<b.version>> \o WriteVec(b.app_id) \o <<b.sequence, b.prev_root, b.new_root>>
        \o WriteVec(b.public_inputs) \o WriteVec(b.public_outputs) \o WriteVec(b.proof)
        \o <<b.program_hash>>
        \o (IF b.timestamp = None THEN <<0>> ELSE <<b.timestamp[1]>>)
        \o WriteOptionVec(b.sequencer_signature)

\* TransitionBlobV1::encode: bincode, the fields in declaration order; a
\* root or program hash ([u8; 32]) is one word.
blob_encode(b) ==
    <<b.version>> \o WriteVec(b.app_id) \o <<b.sequence, b.prev_root, b.new_root>>
        \o WriteVec(b.public_inputs) \o WriteVec(b.public_outputs) \o WriteVec(b.proof)
        \o <<b.program_hash>>
        \o WriteOption(b.timestamp) \o WriteOptionVec(b.sequencer_signature)

\* Reading back: ok, the value and the position after it; not ok when the
\* input ends early or an Option tag is neither 0 nor 1.
ReadFail == [ok |-> FALSE, value |-> <<>>, next |-> 0]

ReadVec(bytes, pos) ==
    IF pos > Len(bytes) THEN ReadFail
    ELSE IF pos + bytes[pos] > Len(bytes) THEN ReadFail
    ELSE [ok |-> TRUE, value |-> SubSeq(bytes, pos + 1, pos + bytes[pos]),
          next |-> pos + bytes[pos] + 1]

ReadOption(bytes, pos) ==
    IF pos > Len(bytes) THEN ReadFail
    ELSE IF bytes[pos] = 0 THEN [ok |-> TRUE, value |-> None, next |-> pos + 1]
    ELSE IF bytes[pos] # 1 \/ pos + 1 > Len(bytes) THEN ReadFail
    ELSE [ok |-> TRUE, value |-> Some(bytes[pos + 1]), next |-> pos + 2]

ReadOptionVec(bytes, pos) ==
    IF pos > Len(bytes) THEN ReadFail
    ELSE IF bytes[pos] = 0 THEN [ok |-> TRUE, value |-> None, next |-> pos + 1]
    ELSE IF bytes[pos] # 1 THEN ReadFail
    ELSE LET v == ReadVec(bytes, pos + 1)
         IN IF v.ok THEN [ok |-> TRUE, value |-> Some(v.value), next |-> v.next]
            ELSE ReadFail

\* bincode::deserialize::<TransitionBlobV1>: bytes after the last field are
\* ignored.
blob_deserialize(bytes) ==
    LET app_id == ReadVec(bytes, 2)
        public_inputs == ReadVec(bytes, app_id.next + 3)
        public_outputs == ReadVec(bytes, public_inputs.next)
        proof == ReadVec(bytes, public_outputs.next)
        timestamp == ReadOption(bytes, proof.next + 1)
        sequencer_signature == ReadOptionVec(bytes, timestamp.next)
    IN IF \/ Len(bytes) < 1
          \/ ~app_id.ok
          \/ app_id.next + 2 > Len(bytes)
          \/ ~public_inputs.ok
          \/ ~public_outputs.ok
          \/ ~proof.ok
          \/ proof.next > Len(bytes)
          \/ ~timestamp.ok
          \/ ~sequencer_signature.ok
       THEN [ok |-> FALSE]
       ELSE [ok |-> TRUE,
             blob |-> [version |-> bytes[1], app_id |-> app_id.value,
                       sequence |-> bytes[app_id.next],
                       prev_root |-> bytes[app_id.next + 1],
                       new_root |-> bytes[app_id.next + 2],
                       public_inputs |-> public_inputs.value,
                       public_outputs |-> public_outputs.value,
                       proof |-> proof.value,
                       program_hash |-> bytes[proof.next],
                       timestamp |-> timestamp.value,
                       sequencer_signature |-> sequencer_signature.value]]

\* A decoder that returns whatever deserializes, whatever its version.
blob_decode_any_version(bytes) ==
    LET d == blob_deserialize(bytes)
    IN IF ~d.ok
       THEN [ok |-> FALSE, err |-> [kind |-> "Encoding", expected |-> 0, got |-> 0]]
       ELSE [ok |-> TRUE, blob |-> d.blob]

\* TransitionBlobV1::decode: Encoding error when bincode fails, then the
\* version check.
blob_decode(bytes) ==
    LET d == blob_deserialize(bytes)
    IN IF ~d.ok
       THEN [ok |-> FALSE, err |-> [kind |-> "Encoding", expected |-> 0, got |-> 0]]
       ELSE IF d.blob.version # SCHEMA_VERSION
       THEN [ok |-> FALSE, err |-> [kind |-> "InvalidVersion",
                                    expected |-> SCHEMA_VERSION, got |-> d.blob.version]]
       ELSE [ok |-> TRUE, blob |-> d.blob]

\* Proof bytes: empty, or one serialized SP1 proof carrying the image it
\* attests and the committed output.
ProofOf(image, prev_root, new_root) ==
    <<[image |-> image, prev_root |-> prev_root, new_root |-> new_root]>>

\* TransitionVerifier::verify: Ok(output) for a proof of the guest image.
TransitionVerifier_verify(proof_bytes) ==
    IF Len(proof_bytes) # 1 \/ proof_bytes[1].image # program_hash
    THEN [ok |-> FALSE, prev_root |-> EMPTY_HASH, new_root |-> EMPTY_HASH]
    ELSE [ok |-> TRUE, prev_root |-> proof_bytes[1].prev_root,
          new_root |-> proof_bytes[1].new_root]

\* ---------------------------------------------------------- chain verifier
hex_encode(h) == <<"hex", h>>

\* Vec::sort_by_key(|(_, t)| t.sequence): stable.
RECURSIVE InsertSorted(_, _)
InsertSorted(sorted, x) ==
    IF sorted = <<>> THEN <<x>>
    ELSE IF Head(sorted).blob.sequence <= x.blob.sequence
         THEN <<Head(sorted)>> \o InsertSorted(Tail(sorted), x)
         ELSE <<x>> \o sorted

RECURSIVE sort_by_sequence(_)
sort_by_sequence(q) ==
    IF q = <<>> THEN <<>>
    ELSE InsertSorted(sort_by_sequence(SubSeq(q, 1, Len(q) - 1)), q[Len(q)])

\* A decoding loop that leaves out the blobs that do not decode, and fails
\* only when none is left.
RECURSIVE decode_all_skips_undecodable(_, _, _)
decode_all_skips_undecodable(blobs, i, transitions) ==
    IF i > Len(blobs) THEN [ok |-> transitions # <<>>, transitions |-> transitions]
    ELSE LET d == blob_decode(blobs[i].data)
         IN IF ~d.ok THEN decode_all_skips_undecodable(blobs, i + 1, transitions)
            ELSE decode_all_skips_undecodable(blobs, i + 1,
                    Append(transitions, [height |-> blobs[i].height, blob |-> d.blob]))

\* Decoding loop: the (height, transition) pairs, or the first decode error.
RECURSIVE decode_all(_, _, _)
decode_all(blobs, i, transitions) ==
    IF i > Len(blobs) THEN [ok |-> TRUE, transitions |-> transitions]
    ELSE LET d == blob_decode(blobs[i].data)
         IN IF ~d.ok THEN [ok |-> FALSE, transitions |-> <<>>]
            ELSE decode_all(blobs, i + 1,
                    Append(transitions, [height |-> blobs[i].height, blob |-> d.blob]))

VerifyErr(kind, sequence, expected, actual) ==
    [ok |-> FALSE, kind |-> kind, sequence |-> sequence,
     expected |-> expected, actual |-> actual]

\* A verifier that takes a proof's validity for the blob's roots without
\* comparing the committed output with them.
verify_transition_proof_ok_only(cfg, t, current_root, expected_program_hash) ==
    IF t.program_hash # expected_program_hash
    THEN VerifyErr("ProgramHashMismatch", t.sequence, <<>>, <<>>)
    ELSE IF t.proof = <<>> /\ t.prev_root # current_root
    THEN VerifyErr("RootChainBroken", t.sequence,
                   hex_encode(current_root), hex_encode(t.prev_root))
    ELSE IF ~cfg.skip_proof_verification /\ t.proof # <<>>
            /\ ~TransitionVerifier_verify(t.proof).ok
    THEN VerifyErr("ProofInvalid", t.sequence, <<>>, <<>>)
    ELSE [ok |-> TRUE]

\* A verifier that reports the broken link with expected and actual swapped.
verify_transition_swapped(cfg, t, current_root, expected_program_hash) ==
    IF t.program_hash # expected_program_hash
    THEN VerifyErr("ProgramHashMismatch", t.sequence, <<>>, <<>>)
    ELSE IF t.prev_root # current_root
    THEN VerifyErr("RootChainBroken", t.sequence,
                   hex_encode(t.prev_root), hex_encode(current_root))
    ELSE LET check == ~cfg.skip_proof_verification /\ t.proof # <<>>
             out == TransitionVerifier_verify(t.proof)
         IN IF check /\ ~out.ok
            THEN VerifyErr("ProofInvalid", t.sequence, <<>>, <<>>)
            ELSE IF check /\ (out.prev_root # t.prev_root \/ out.new_root # t.new_root)
            THEN VerifyErr("ProofInvalid", t.sequence, <<>>, <<>>)
            ELSE [ok |-> TRUE]

\* A verifier that checks root continuity before the program hash.
verify_transition_continuity_first(cfg, t, current_root, expected_program_hash) ==
    IF t.prev_root # current_root
    THEN VerifyErr("RootChainBroken", t.sequence,
                   hex_encode(current_root), hex_encode(t.prev_root))
    ELSE IF t.program_hash # expected_program_hash
    THEN VerifyErr("ProgramHashMismatch", t.sequence, <<>>, <<>>)
    ELSE LET check == ~cfg.skip_proof_verification /\ t.proof # <<>>
             out == TransitionVerifier_verify(t.proof)
         IN IF check /\ ~out.ok
            THEN VerifyErr("ProofInvalid", t.sequence, <<>>, <<>>)
            ELSE IF check /\ (out.prev_root # t.prev_root \/ out.new_root # t.new_root)
            THEN VerifyErr("ProofInvalid", t.sequence, <<>>, <<>>)
            ELSE [ok |-> TRUE]

\* One pass of the verification loop on transition t: the program hash, then
\* root continuity, then the proof and its committed output.
verify_transition(cfg, t, current_root, expected_program_hash) ==
    IF t.program_hash # expected_program_hash
    THEN VerifyErr("ProgramHashMismatch", t.sequence, <<>>, <<>>)
    ELSE IF t.prev_root # current_root
    THEN VerifyErr("RootChainBroken", t.sequence,
                   hex_encode(current_root), hex_encode(t.prev_root))
    ELSE LET check == ~cfg.skip_proof_verification /\ t.proof # <<>>
             out == TransitionVerifier_verify(t.proof)
         IN IF check /\ ~out.ok
            THEN VerifyErr("ProofInvalid", t.sequence, <<>>, <<>>)
            ELSE IF check /\ (out.prev_root # t.prev_root \/ out.new_root # t.new_root)
            THEN VerifyErr("ProofInvalid", t.sequence, <<>>, <<>>)
            ELSE [ok |-> TRUE]

\* A verification loop in which a transition with an empty proof leaves the
\* running root where it was.
RECURSIVE verify_loop_empty_proof_keeps_root(_, _, _, _, _)
verify_loop_empty_proof_keeps_root(cfg, transitions, i, acc, expected_program_hash) ==
    IF i > Len(transitions) THEN [ok |-> TRUE, acc |-> acc]
    ELSE LET t == transitions[i].blob
             r == verify_transition(cfg, t, acc.current_root, expected_program_hash)
         IN IF ~r.ok THEN r
            ELSE verify_loop_empty_proof_keeps_root(cfg, transitions, i + 1,
                    [current_root |-> IF t.proof = <<>> THEN acc.current_root
                                      ELSE t.new_root,
                     last_sequence |-> t.sequence,
                     last_height |-> transitions[i].height,
                     unverified |-> IF t.proof = <<>>
                                    THEN Append(acc.unverified, t.sequence)
                                    ELSE acc.unverified],
                    expected_program_hash)

\* The verification loop over the sorted transitions.
RECURSIVE verify_loop(_, _, _, _, _)
verify_loop(cfg, transitions, i, acc, expected_program_hash) ==
    IF i > Len(transitions) THEN [ok |-> TRUE, acc |-> acc]
    ELSE LET t == transitions[i].blob
             r == verify_transition(cfg, t, acc.current_root, expected_program_hash)
         IN IF ~r.ok THEN r
            ELSE verify_loop(cfg, transitions, i + 1,
                    [current_root |-> t.new_root,
                     last_sequence |-> t.sequence,
                     last_height |-> transitions[i].height,
                     unverified |-> IF t.proof = <<>>
                                    THEN Append(acc.unverified, t.sequence)
                                    ELSE acc.unverified],
                    expected_program_hash)

\* A verifier that walks the blobs in DA order, without sorting by sequence.
verify_range_unsorted(cfg, blobs) ==
    IF blobs = <<>> THEN VerifyErr("NoBlobsFound", 0, <<>>, <<>>)
    ELSE LET dec == decode_all(blobs, 1, <<>>) IN
    IF ~dec.ok THEN VerifyErr("BlobDecode", 0, <<>>, <<>>)
    ELSE LET transitions == dec.transitions
             first == transitions[1]
             current_root == IF cfg.expected_first_root # None
                             THEN cfg.expected_first_root[1] ELSE first.blob.prev_root
             r == verify_loop(cfg, transitions, 1,
                    [current_root |-> current_root,
                     last_sequence |-> first.blob.sequence,
                     last_height |-> first.height,
                     unverified |-> <<>>],
                    program_hash)
         IN IF ~r.ok THEN r
            ELSE [ok |-> TRUE,
                  total_transitions |-> Len(transitions),
                  first_root |-> current_root,
                  latest_root |-> r.acc.current_root,
                  first_sequence |-> first.blob.sequence,
                  last_sequence |-> r.acc.last_sequence,
                  height_range |-> <<first.height, r.acc.last_height>>,
                  unverified_transitions |-> r.acc.unverified]

\* ChainVerifier::verify_range over the blobs get_blobs_range returned.
verify_range(cfg, blobs) ==
    IF blobs = <<>> THEN VerifyErr("NoBlobsFound", 0, <<>>, <<>>)
    ELSE LET dec == decode_all(blobs, 1, <<>>) IN
    IF ~dec.ok THEN VerifyErr("BlobDecode", 0, <<>>, <<>>)
    ELSE LET transitions == sort_by_sequence(dec.transitions)
             expected_program_hash ==
                 IF cfg.expected_program_hash # None THEN cfg.expected_program_hash[1]
                 ELSE program_hash
             first == transitions[1]
             current_root == IF cfg.expected_first_root # None
                             THEN cfg.expected_first_root[1] ELSE first.blob.prev_root
             r == verify_loop(cfg, transitions, 1,
                    [current_root |-> current_root,
                     last_sequence |-> first.blob.sequence,
                     last_height |-> first.height,
                     unverified |-> <<>>],
                    expected_program_hash)
         IN IF ~r.ok THEN r
            ELSE [ok |-> TRUE,
                  total_transitions |-> Len(transitions),
                  first_root |-> current_root,
                  latest_root |-> r.acc.current_root,
                  first_sequence |-> first.blob.sequence,
                  last_sequence |-> r.acc.last_sequence,
                  height_range |-> <<first.height, r.acc.last_height>>,
                  unverified_transitions |-> r.acc.unverified]

\* ------------------------------------------------------------------ syncer
SyncErr(kind, sequence) == [ok |-> FALSE, kind |-> kind, sequence |-> sequence]

\* Decoding loop of sync_range: a blob that does not decode leaves a warning.
RECURSIVE sync_decode_all(_, _, _, _)
sync_decode_all(blobs, i, transitions, warnings) ==
    IF i > Len(blobs) THEN [transitions |-> transitions, warnings |-> warnings]
    ELSE LET d == blob_decode(blobs[i].data)
         IN IF ~d.ok
            THEN sync_decode_all(blobs, i + 1, transitions,
                    Append(warnings, [kind |-> "decode", at |-> blobs[i].height]))
            ELSE sync_decode_all(blobs, i + 1,
                    Append(transitions, [height |-> blobs[i].height, blob |-> d.blob]),
                    warnings)

\* The verification loop of sync_range over the sorted transitions.
RECURSIVE sync_loop(_, _, _)
sync_loop(transitions, i, acc) ==
    IF i > Len(transitions) THEN [ok |-> TRUE, acc |-> acc]
    ELSE LET t == transitions[i].blob
             out == TransitionVerifier_verify(t.proof)
         IN IF t.program_hash # program_hash
            THEN sync_loop(transitions, i + 1,
                    [acc EXCEPT !.warnings =
                        Append(@, [kind |-> "program_hash", at |-> t.sequence])])
            ELSE IF t.prev_root # acc.current_root
            THEN SyncErr("Root chain broken", t.sequence)
            ELSE IF t.proof # <<>> /\ ~out.ok
            THEN SyncErr("Proof verification failed", t.sequence)
            ELSE IF t.proof # <<>> /\ out.prev_root # t.prev_root
            THEN SyncErr("Proof prev_root mismatch", t.sequence)
            ELSE IF t.proof # <<>> /\ out.new_root # t.new_root
            THEN SyncErr("Proof new_root mismatch", t.sequence)
            ELSE sync_loop(transitions, i + 1,
                    [current_root |-> t.new_root,
                     last_height |-> transitions[i].height,
                     warnings |-> IF t.proof = <<>>
                                  THEN Append(acc.warnings,
                                              [kind |-> "no proof", at |-> t.sequence])
                                  ELSE acc.warnings])

\* CelestiaSyncer::sync_range over the blobs get_blobs_range returned.
sync_range(expected_prev_root, blobs) ==
    IF blobs = <<>> THEN SyncErr("no blobs found in range", 0)
    ELSE LET dec == sync_decode_all(blobs, 1, <<>>, <<>>) IN
    IF dec.transitions = <<>> THEN SyncErr("no valid transition blobs found", 0)
    ELSE LET transitions == sort_by_sequence(dec.transitions)
             first_transition == transitions[1].blob
             current_root == IF expected_prev_root # None THEN expected_prev_root[1]
                             ELSE first_transition.prev_root
             first_height == transitions[1].height
             r == sync_loop(transitions, 1,
                    [current_root |-> current_root,
                     last_height |-> first_height,
                     warnings |-> dec.warnings])
         IN IF ~r.ok THEN r
            ELSE [ok |-> TRUE,
                  transitions_verified |-> Len(transitions),
                  first_root |-> current_root,
                  latest_root |-> r.acc.current_root,
                  first_height |-> first_height,
                  last_height |-> r.acc.last_height,
                  warnings |-> r.acc.warnings]

\* ------------------------------------------------------------------- state
VARIABLES
    tree,          \* the SparseMerkleTree under test
    t_root_before, \* root() read right before the last insert/delete
    t_witness,     \* Option of the witness returned by the last insert/delete
    t_r0,          \* root at which the current witness chain started
    t_chain,       \* witnesses returned since t_r0, in call order
    t_model,       \* the key-value map the trie stands for, and the keys ever inserted
    store,         \* the StateStore under test (db, tree, transition_index)
    builder,       \* operations collected by the TransitionBuilder
    s_call,        \* the last StateStore call and what it returned
    g_input,       \* the TransitionInput handed to the guest
    g_overflow_checks, \* whether the guest image was built with overflow checks
    g_result,      \* Option of the guest run's outcome
    da,            \* blobs the DA service returns for the range: (height, data)
    v_cfg,         \* VerifyConfig of the ChainVerifier
    v_base,        \* Option of the DA contents before they were tampered with
    v_tamper,      \* what the tampering changed (kind, position in da)
    v_result,      \* Option of what verify_range returned
    n_cfg,         \* AppNodeConfig: proving_enabled, celestia_enabled
    n_store,       \* the node's StateStore
    n_history,     \* AppNodeState.root_history: (root, celestia height)
    n_pc,          \* "idle", or "posting" while apply_transition awaits submit_blob
    n_pending,     \* the transition suspended in submit_blob
    n_posted,      \* blobs the DA service accepted from the node: (height, data)
    n_committed,   \* transitions whose commit() succeeded: (sequence, new_root)
    n_last,        \* outcome of the last apply_transition / AppNode::new
    n_faults,      \* failed or cancelled calls and restarts so far
    n_results,     \* the TransitionResults returned so far, in call order
    lock_writer,   \* Option of the task holding the RwLock's write guard
    lock_readers,  \* tasks holding a read guard of the RwLock
    task_pc,       \* where each task is in its call
    reader_obs,    \* what each reader saw under its read guard
    b_blob,        \* a TransitionBlobV1
    b_bytes,       \* Option of bytes made from it: the data, and whether it is whole
    b_decoded,     \* Option of what TransitionBlobV1::decode returned for the bytes
    ctx,           \* an sdk Context: its store, operations and witnesses
    sdk_call,      \* the last accounts call on it, the balances before it, its result
    h_tree,        \* a SparseMerkleTree written through insert_by_hash
    h_iter,        \* the order in which its leaves HashMap iterates its keys
    h_stored,      \* the value last stored under each key hash
    sync_result    \* Option of what sync_range returned

trieVars == <<tree, t_root_before, t_witness, t_r0, t_chain, t_model>>

storeVars == <<store, builder, s_call>>

guestVars == <<g_input, g_overflow_checks, g_result>>

verifyVars == <<da, v_cfg, v_base, v_tamper, v_result>>

nodeVars == <<n_cfg, n_store, n_history, n_pc, n_pending, n_posted, n_committed, n_last,
             n_faults, n_results>>

lockVars == <<lock_writer, lock_readers, task_pc, reader_obs>>

blobVars == <<b_blob, b_bytes, b_decoded>>

sdkVars == <<ctx, sdk_call>>

mapVars == <<h_tree, h_iter, h_stored>>

syncVars == <<sync_result>>

vars == <<trieVars, storeVars, guestVars, verifyVars, nodeVars, lockVars, blobVars,
         sdkVars, mapVars, syncVars>>

NoCall == [call |-> "none", ok |-> TRUE, ops |-> <<>>, fail_at |-> 0,
           prev_root |-> EMPTY_HASH, witnesses |-> <<>>, root |-> EMPTY_HASH]

\* Variable groups a specification does not exercise stay at these values.
\* The map of a new trie: no key has a value, none was ever inserted.
NoEntries == [values |-> [key \in Keys |-> None], inserted |-> {}]

TrieParked ==
    /\ tree = SparseMerkleTree_new
    /\ t_root_before = EMPTY_HASH
    /\ t_witness = None
    /\ t_r0 = EMPTY_HASH
    /\ t_chain = <<>>
    /\ t_model = NoEntries

StoreParked ==
    /\ store = StateStore_in_memory
    /\ builder = <<>>
    /\ s_call = NoCall

EmptyInput == [prev_root |-> EMPTY_HASH, public_inputs |-> <<>>, private_inputs |-> <<>>,
               witnesses |-> <<>>, operations |-> <<>>]

GuestParked ==
    /\ g_input = EmptyInput
    /\ g_overflow_checks = FALSE
    /\ g_result = None

DefaultVerifyConfig ==
    [expected_program_hash |-> None, skip_proof_verification |-> FALSE,
     expected_first_root |-> None]

NoTamper == [kind |-> "none", pos |-> 0]

VerifyParked ==
    /\ da = <<>>
    /\ v_cfg = DefaultVerifyConfig
    /\ v_base = None
    /\ v_tamper = NoTamper
    /\ v_result = None

DefaultNodeConfig == [proving_enabled |-> TRUE, celestia_enabled |-> TRUE]

NoPending == [ops |-> <<>>, index_before |-> 0, sequence |-> 0, prev_root |-> EMPTY_HASH,
              new_root |-> EMPTY_HASH, proof_bytes |-> <<>>, blob |-> <<>>,
              output |-> NoOutput]

NoOutcome == [call |-> "none", ok |-> TRUE, at |-> "none", ops |-> <<>>, index_before |-> 0,
              sequence |-> 0, prev_root |-> EMPTY_HASH, new_root |-> EMPTY_HASH,
              proof_bytes |-> <<>>, blob |-> <<>>, celestia_height |-> None]

SyncParked == sync_result = None

MapParked ==
    /\ h_tree = SparseMerkleTree_new
    /\ h_iter = <<>>
    /\ h_stored = [k \in KeyHashes |-> None]

SdkParked ==
    /\ ctx = Context_new(StateStore_in_memory)
    /\ sdk_call = NoSdkCall

BlobParked ==
    /\ b_blob = TransitionBlobV1_new(<<>>, 0, EMPTY_HASH, EMPTY_HASH, <<>>, <<>>, program_hash)
    /\ b_bytes = None
    /\ b_decoded = None

LockParked ==
    /\ lock_writer = None
    /\ lock_readers = {}
    /\ task_pc = <<>>
    /\ reader_obs = <<>>

NodeParked ==
    /\ n_cfg = DefaultNodeConfig
    /\ n_store = StateStore_in_memory
    /\ n_history = <<>>
    /\ n_pc = "idle"
    /\ n_pending = NoPending
    /\ n_posted = <<>>
    /\ n_committed = <<>>
    /\ n_last = NoOutcome
    /\ n_faults = 0
    /\ n_results = <<>>

\* ---------------------------------------------------------------- trie spec
TrieInit ==
    /\ MapParked
    /\ SdkParked
    /\ SyncParked
    /\ BlobParked
    /\ LockParked
    /\ StoreParked
    /\ NodeParked
    /\ GuestParked
    /\ VerifyParked
    /\ tree = SparseMerkleTree_new
    /\ t_root_before = root(SparseMerkleTree_new)
    /\ t_witness = None
    /\ t_r0 = root(SparseMerkleTree_new)
    /\ t_chain = <<>>
    /\ t_model = NoEntries

\* tree.insert(key, value)
TrieInsert(key, value) ==
    /\ Len(t_chain) < MaxChain
    /\ LET w == insert_witness(tree, hash_key(key), value)
       IN /\ t_root_before' = root(tree)
          /\ t_witness' = Some(w)
          /\ t_chain' = Append(t_chain, w)
    /\ tree' = insert_by_hash(tree, hash_key(key), value)
    /\ t_model' = [values |-> [t_model.values EXCEPT ![key] = Some(value)],
                   inserted |-> t_model.inserted \cup {key}]
    /\ UNCHANGED t_r0

\* tree.delete(key)
TrieDelete(key) ==
    /\ Len(t_chain) < MaxChain
    /\ LET w == delete_witness(tree, hash_key(key))
       IN /\ t_root_before' = root(tree)
          /\ t_witness' = Some(w)
          /\ t_chain' = Append(t_chain, w)
    /\ tree' = delete_by_hash(tree, hash_key(key))
    /\ t_model' = [t_model EXCEPT !.values[key] = None]
    /\ UNCHANGED t_r0

\* A caller starts a new witness chain at the current root.
TrieRestart ==
    /\ t_chain # <<>>
    /\ t_r0' = root(tree)
    /\ t_chain' = <<>>
    /\ t_witness' = None
    /\ t_root_before' = root(tree)
    /\ UNCHANGED <<tree, t_model>>

TrieNext ==
    /\ \/ \E key \in Keys, value \in Values : TrieInsert(key, value)
       \/ \E key \in Keys : TrieDelete(key)
       \/ TrieRestart
    /\ UNCHANGED <<syncVars, mapVars, storeVars, guestVars, verifyVars, nodeVars, lockVars, blobVars, sdkVars>>

SpecTrie == TrieInit /\ [][TrieNext]_vars

\* tree.delete(key) on a key the trie does not hold.
DeleteAbsentStep(key) ==
    /\ TrieDelete(key)
    /\ t_model.values[key] = None

SameValues(t1, t2) ==
    \A k \in Keys : get_by_hash(t1, hash_key(k)) = get_by_hash(t2, hash_key(k))

\* C32: delete of a key that is not present returns a witness with
\* old_value = None and new_value = None whose compute_old_root and
\* compute_new_root both equal the current root, and leaves root() and every
\* stored value as they were.
C32_DeleteAbsentIsNoop ==
    [][\A key \in Keys :
          DeleteAbsentStep(key) =>
              /\ t_witness'[1].old_value = None
              /\ t_witness'[1].new_value = None
              /\ compute_old_root(t_witness'[1]) = root(tree)
              /\ compute_new_root(t_witness'[1]) = root(tree)
              /\ root(tree') = root(tree)
              /\ SameValues(tree', tree)]_vars

\* A key that was inserted and deleted before was deleted again while the
\* trie held another key.
C32_Witness ==
    /\ t_witness # None
    /\ t_witness[1].old_value = None /\ t_witness[1].new_value = None
    /\ \E key \in t_model.inserted :
          /\ t_witness[1].key = hash_key(key)
          /\ t_model.values[key] = None
    /\ \E other \in Keys : t_model.values[other] # None
    /\ root(tree) # empty_hashes(0)

\* tree.insert(key, value) on a key that already holds value.
ReinsertStep(key, value) ==
    /\ TrieInsert(key, value)
    /\ t_model.values[key] = Some(value)

\* C33: inserting a (key, value) pair that is already present with that
\* value returns a witness with old_value = new_value = value that is valid
\* for the current root, and leaves root() unchanged.
C33_ReinsertKeepsRoot ==
    [][\A key \in Keys, value \in Values :
          ReinsertStep(key, value) =>
              /\ t_witness'[1].old_value = Some(value)
              /\ t_witness'[1].new_value = Some(value)
              /\ compute_old_root(t_witness'[1]) = root(tree)
              /\ compute_new_root(t_witness'[1]) = root(tree)
              /\ verify_witnesses(root(tree), <<t_witness'[1]>>) =
                    [ok |-> TRUE, root |-> root(tree)]
              /\ root(tree') = root(tree)]_vars

\* A key was inserted again with the value it held, in a trie of two keys.
C33_Witness ==
    /\ t_witness # None
    /\ t_witness[1].old_value # None
    /\ t_witness[1].old_value = t_witness[1].new_value
    /\ get_by_hash(tree, t_witness[1].key) = t_witness[1].new_value
    /\ Cardinality(Present(tree.leaves)) >= 2
    /\ t_root_before = root(tree)

\* The trie built from nothing by inserting the pairs of a map, the keys
\* taken in the order of the sequence ks.
RECURSIVE TrieOf(_, _)
TrieOf(values, ks) ==
    IF ks = <<>> THEN SparseMerkleTree_new
    ELSE LET key == ks[Len(ks)]
             rest == TrieOf(values, SubSeq(ks, 1, Len(ks) - 1))
         IN IF values[key] = None THEN rest
            ELSE insert_by_hash(rest, hash_key(key), values[key][1])

\* The chain of this caller is the insert of a key that was absent followed
\* by its delete.
InsertedThenDeleted ==
    /\ Len(t_chain) = 2
    /\ t_chain[1].old_value = None /\ t_chain[1].new_value # None
    /\ t_chain[2].key = t_chain[1].key
    /\ t_chain[2].new_value = None

\* C34: the root depends only on the current (key, value) pairs, not on the
\* order or history of the operations: the trie reached by any history has
\* the root of a trie built afresh from its pairs in either key order, the
\* empty set gives E[0], and inserting a key and then deleting it restores
\* the root from before.
C34_RootOfLeafSet ==
    /\ root(tree) = root(TrieOf(t_model.values, <<"k0", "k1", "k2">>))
    /\ root(tree) = root(TrieOf(t_model.values, <<"k2", "k1", "k0">>))
    /\ (\A key \in Keys : t_model.values[key] = None) => root(tree) = empty_hashes(0)
    /\ InsertedThenDeleted => root(tree) = t_r0

\* A key was inserted into a trie that held another key and then deleted.
C34_Witness ==
    /\ InsertedThenDeleted
    /\ t_r0 # empty_hashes(0)
    /\ root(tree) = t_r0
    /\ \E key \in Keys : t_model.values[key] # None

\* get_proof(key)
get_proof(t, key) == get_proof_by_hash(t, hash_key(key))

\* C19: in every reachable trie state, for every application key,
\* get_proof(key) carries the stored value (None for a key that is absent,
\* was deleted or was never inserted) and verifies against root().
C19_ProofsVerify ==
    \A key \in Keys :
        LET p == get_proof(tree, key)
        IN /\ p.key = hash_key(key)
           /\ p.value = t_model.values[key]
           /\ p.value = get_by_hash(tree, hash_key(key))
           /\ key \notin t_model.inserted => p.value = None
           /\ Len(p.siblings) = TREE_DEPTH
           /\ proof_verify(p, root(tree))

\* The trie holds one key, another was inserted and then deleted, and a
\* third was never inserted.
C19_Witness ==
    /\ \E key \in Keys : t_model.values[key] # None
    /\ \E key \in t_model.inserted : t_model.values[key] = None
    /\ \E key \in Keys : key \notin t_model.inserted
    /\ root(tree) # root(SparseMerkleTree_new)

\* A step that is insert(key, value'): the witness it returned names the
\* key and the value.
InsertStep ==
    /\ t_witness' # None
    /\ t_chain' = Append(t_chain, t_witness'[1])
    /\ t_witness'[1].new_value # None

\* After the insert of this step the proof taken after it verifies against
\* the new root and the proof taken just before it does not.
OldProofRejected ==
    LET key_hash == t_witness'[1].key
        before == get_proof_by_hash(tree, key_hash)
        after == get_proof_by_hash(tree', key_hash)
    IN /\ proof_verify(before, root(tree))
       /\ proof_verify(after, root(tree'))
       /\ ~proof_verify(before, root(tree'))

\* C20 as stated: for every key and every value', after insert(key, value')
\* the new proof verifies against the new root and the proof taken just
\* before the insert does not.
C20_OldProofNeverVerifies == [][InsertStep => OldProofRejected]_vars

\* C20: the same for every insert that changes the key's value (the key was
\* absent or held another value); an insert of the value the key already
\* holds leaves the root as it was, and the proof taken before it verifies.
C20_OldProofRejectedOnChange ==
    [][InsertStep =>
          LET key_hash == t_witness'[1].key
              before == get_proof_by_hash(tree, key_hash)
              after == get_proof_by_hash(tree', key_hash)
          IN IF get_by_hash(tree, key_hash) # t_witness'[1].new_value
             THEN OldProofRejected
             ELSE /\ root(tree') = root(tree)
                  /\ after = before
                  /\ proof_verify(before, root(tree'))]_vars

\* A key that held a value has just been given another value.
C20_Witness ==
    /\ t_witness # None
    /\ t_witness[1].old_value # None
    /\ t_witness[1].new_value # None
    /\ t_witness[1].old_value # t_witness[1].new_value
    /\ get_by_hash(tree, t_witness[1].key) = t_witness[1].new_value
    /\ Cardinality(Present(tree.leaves)) >= 2

\* ----------------------------------------------------------------- map spec
\* A tree written through insert_by_hash with arbitrary 32-byte key hashes.
MaxLeaves == 2

MapInit ==
    /\ SdkParked
    /\ SyncParked
    /\ BlobParked
    /\ LockParked
    /\ StoreParked
    /\ NodeParked
    /\ GuestParked
    /\ VerifyParked
    /\ TrieParked
    /\ h_tree = SparseMerkleTree_new
    /\ h_iter = <<>>
    /\ h_stored = [k \in KeyHashes |-> None]

\* tree.insert_by_hash(key_hash, value): a key hash the map already holds
\* keeps its place in the iteration, a new one may land anywhere in it.
MapInsertByHash(key_hash, value) ==
    /\ h_tree' = insert_by_hash(h_tree, key_hash, value)
    /\ h_stored' = [h_stored EXCEPT ![key_hash] = Some(value)]
    /\ IF h_tree.leaves[key_hash] # None
       THEN UNCHANGED h_iter
       ELSE /\ Len(h_iter) < MaxLeaves
            /\ \E at \in 0..Len(h_iter) :
                  h_iter' = SubSeq(h_iter, 1, at) \o <<key_hash>>
                            \o SubSeq(h_iter, at + 1, Len(h_iter))

\* tree.delete_by_hash(key_hash)
MapDeleteByHash(key_hash) ==
    /\ h_tree.leaves[key_hash] # None
    /\ h_tree' = delete_by_hash(h_tree, key_hash)
    /\ h_stored' = [h_stored EXCEPT ![key_hash] = None]
    /\ h_iter' = SelectSeq(h_iter, LAMBDA k : k # key_hash)

MapNext ==
    /\ \/ \E key_hash \in KeyHashes, value \in Values : MapInsertByHash(key_hash, value)
       \/ \E key_hash \in KeyHashes : MapDeleteByHash(key_hash)
    /\ UNCHANGED <<syncVars, trieVars, storeVars, guestVars, verifyVars, nodeVars, lockVars, blobVars,
                   sdkVars>>

SpecMap == MapInit /\ [][MapNext]_vars

\* C37: every key hash stored through insert_by_hash, also one that shares
\* its first TREE_DEPTH bits with another stored key hash, is retrievable
\* with get_by_hash, and its get_proof_by_hash verifies against root().
C37_EveryStoredHashProves ==
    \A k \in KeyHashes :
        h_stored[k] # None =>
            /\ get_by_hash(h_tree, k) = h_stored[k]
            /\ proof_verify(get_proof_by_hash_ordered(h_tree, h_iter, k),
                            root_ordered(h_tree, h_iter))

\* --------------------------------------------------------------- batch spec
BatchInit ==
    /\ SdkParked
    /\ SyncParked
    /\ BlobParked
    /\ LockParked
    /\ TrieParked
    /\ MapParked
    /\ NodeParked
    /\ GuestParked
    /\ VerifyParked
    /\ store = StateStore_in_memory
    /\ builder = <<>>
    /\ s_call = NoCall

\* TransitionBuilder::insert
BuilderInsert(key, value) ==
    /\ Len(builder) < MaxBatch
    /\ builder' = Append(builder, OpInsert(key, value))
    /\ s_call' = NoCall
    /\ UNCHANGED store

\* TransitionBuilder::delete
BuilderDelete(key) ==
    /\ Len(builder) < MaxBatch
    /\ builder' = Append(builder, OpDelete(key))
    /\ s_call' = NoCall
    /\ UNCHANGED store

\* store.apply_batch(builder.build()), with a durable-map failure at
\* operation fail_at (0: none).
StoreApplyBatch(fail_at) ==
    /\ fail_at <= Len(builder)
    /\ LET r == apply_batch(store, builder, fail_at)
       IN /\ store' = r.store
          /\ s_call' = [call |-> "apply_batch", ok |-> r.ok, ops |-> builder,
                        fail_at |-> fail_at, prev_root |-> store_root(store),
                        witnesses |-> r.witnesses, root |-> store_root(r.store)]
    /\ builder' = <<>>

BatchNext ==
    /\ \/ \E key \in Keys, value \in Values : BuilderInsert(key, value)
       \/ \E key \in Keys : BuilderDelete(key)
       \/ \E fail_at \in 0..MaxBatch : StoreApplyBatch(fail_at)
    /\ UNCHANGED <<syncVars, trieVars, mapVars, guestVars, verifyVars, nodeVars, lockVars, blobVars, sdkVars>>

SpecBatch == BatchInit /\ [][BatchNext]_vars

\* The values of the application keys after the first n operations of ops,
\* starting from the values in map.
RECURSIVE ValuesAfter(_, _, _)
ValuesAfter(map, ops, n) ==
    IF n = 0 THEN map
    ELSE LET before == ValuesAfter(map, ops, n - 1)
         IN [before EXCEPT ![ops[n].key] =
                IF ops[n].op = "Insert" THEN Some(ops[n].value) ELSE None]

\* A step in which apply_batch runs on a batch with the durable map failing
\* at one of its operations.
FailingBatchStep ==
    /\ builder # <<>>
    /\ s_call'.call = "apply_batch" /\ s_call'.ops = builder
    /\ s_call'.fail_at >= 1

\* C18: when apply_batch fails at an operation, the error is returned, and
\* the trie and the durable map's user keys both hold exactly the values
\* after the operations before it: every application key has the same value
\* in both.
C18_PartialBatchConsistent ==
    [][FailingBatchStep =>
          LET expected == ValuesAfter([key \in Keys |-> get_raw(store, key)],
                                      builder, s_call'.fail_at - 1)
          IN /\ ~s_call'.ok
             /\ \A key \in Keys :
                   /\ get_raw(store', key) = expected[key]
                   /\ get_by_hash(store'.tree, hash_key(key)) = expected[key]
                   /\ get_with_proof(store', key).value = expected[key]
             /\ store'.transition_index = store.transition_index]_vars

\* An apply_batch has failed at its second operation after its first one
\* changed the root.
C18_Witness ==
    /\ s_call.call = "apply_batch" /\ ~s_call.ok
    /\ s_call.fail_at = 2
    /\ store_root(store) # s_call.prev_root
    /\ \E key \in Keys : get_raw(store, key) # None

(***************************************************************************)
(* The store with its commits: operations, commit attempts that may fail   *)
(* at one of their durable-map steps, and reopening the database.          *)
(***************************************************************************)
CommitInit ==
    /\ SdkParked
    /\ SyncParked
    /\ BlobParked
    /\ LockParked
    /\ TrieParked
    /\ MapParked
    /\ NodeParked
    /\ GuestParked
    /\ VerifyParked
    /\ store = StateStore_in_memory
    /\ builder = <<>>
    /\ s_call = NoCall

\* The operations callers pass: on application keys, and on a key equal to
\* the reserved name __merkle_tree__ (nothing stops a caller from passing it).
StoreOps ==
    {OpInsert("k0", v) : v \in Values}
        \cup {OpDelete("k0"), OpInsert("k1", <<7>>),
              OpInsert(MERKLE_TREE_KEY, <<7>>), OpDelete(MERKLE_TREE_KEY)}

\* insert_raw / delete outside a commit
StoreOp(op) ==
    /\ store' = store_apply_op(store, op)
    /\ s_call' = NoCall
    /\ UNCHANGED builder

\* store.commit(), failing at step fail (0: not at all). attempt_index is the
\* transition index before the first of the attempts that were retried.
StoreCommit(fail) ==
    /\ store.transition_index < MaxIndex
    /\ LET r == commit(store, fail)
           retry == s_call.call = "commit" /\ ~s_call.ok
       IN /\ store' = r.store
          /\ s_call' = [call |-> "commit", ok |-> r.ok, ops |-> <<>>,
                        fail_at |-> fail, prev_root |-> store_root(store), witnesses |-> <<>>,
                        root |-> r.root, retry |-> retry,
                        attempt_index |-> IF retry THEN s_call.attempt_index
                                          ELSE store.transition_index]
    /\ UNCHANGED builder

\* The store is dropped and StateStore::open runs on its database.
StoreReopen ==
    /\ StateStore_open(store.db).ok
    /\ store' = StateStore_open(store.db).store
    /\ s_call' = [call |-> "open", ok |-> TRUE, ops |-> <<>>, fail_at |-> 0,
                  prev_root |-> store_root(store), witnesses |-> <<>>,
                  root |-> store_root(store'),
                  after_commit |-> (s_call.call = "commit" /\ s_call.ok),
                  index |-> store.transition_index,
                  tree |-> store.tree]
    /\ UNCHANGED builder

CommitNext ==
    /\ \/ \E op \in StoreOps : StoreOp(op)
       \/ \E fail \in 0..3 : StoreCommit(fail)
       \/ StoreReopen
    /\ UNCHANGED <<syncVars, trieVars, mapVars, guestVars, verifyVars, nodeVars, lockVars, blobVars, sdkVars>>

SpecCommit == CommitInit /\ [][CommitNext]_vars

\* C22: in every reachable state of a store (after writes, commits and
\* reopening, committed or not), for every key, the reserved name included,
\* get_raw(k) returns the value get_with_proof(k) returns, and the pair of
\* get_with_proof is consistent: its value is the proof's value and the
\* proof verifies against root().
C22_MapAgreesWithTrie ==
    \A key \in Keys \cup {MERKLE_TREE_KEY} :
        LET got == get_with_proof(store, key)
        IN /\ get_raw(store, key) = got.value
           /\ got.value = got.proof.value
           /\ proof_verify(got.proof, store_root(store))

\* C27: serializing a trie and deserializing the bytes gives a trie with the
\* same root and the same value for every key; and a store reopened right
\* after a successful commit() reports the root() and the transition_index()
\* it reported at the commit.
C27_SerializeRoundTrip ==
    /\ LET d == tree_deserialize(tree_serialize(store.tree))
       IN /\ d.ok
          /\ root(d.tree) = root(store.tree)
          /\ \A key \in Keys \cup {MERKLE_TREE_KEY} :
                get_by_hash(d.tree, hash_key(key)) = get_by_hash(store.tree, hash_key(key))
    /\ (s_call.call = "open" /\ s_call.after_commit) =>
          /\ store_root(store) = s_call.prev_root
          /\ store.transition_index = s_call.index
          /\ \A key \in Keys \cup {MERKLE_TREE_KEY} :
                get_by_hash(store.tree, hash_key(key)) = get_by_hash(s_call.tree, hash_key(key))

\* A store holding two keys was committed and reopened.
C27_Witness ==
    /\ s_call.call = "open" /\ s_call.after_commit
    /\ store.transition_index >= 1
    /\ get_raw(store, "k0") # None /\ get_raw(store, "k1") # None
    /\ store_root(store) # empty_hashes(0)

\* C17: when a commit fails partway and the next commit succeeds, the
\* transition index is one more than before the failed attempt, and the
\* persisted __transition_index__ is the in-memory transition index.
C17_CommitRetry ==
    (s_call.call = "commit" /\ s_call.ok /\ s_call.retry) =>
        /\ store.transition_index = s_call.attempt_index + 1
        /\ get_raw(store, TRANSITION_INDEX_KEY) = Some(<<store.transition_index>>)

RECURSIVE ChainLinked(_, _)
ChainLinked(witnesses, i) ==
    i >= Len(witnesses)
    \/ /\ compute_old_root(witnesses[i + 1]) = compute_new_root(witnesses[i])
       /\ ChainLinked(witnesses, i + 1)

\* C2: the witnesses returned for a sequence of inserts and deletes applied
\* from root R0 (one per operation, in operation order) pass
\* verify_witnesses(R0, ...) with the root after the last operation as the
\* result, and each witness's old root is the new root of the one before it.
C2_WitnessChain ==
    (s_call.call = "apply_batch" /\ s_call.ok) =>
        /\ Len(s_call.witnesses) = Len(s_call.ops)
        /\ \A i \in 1..Len(s_call.ops) :
              /\ s_call.witnesses[i].key = hash_key(s_call.ops[i].key)
              /\ s_call.witnesses[i].new_value =
                    (IF s_call.ops[i].op = "Insert" THEN Some(s_call.ops[i].value) ELSE None)
        /\ verify_witnesses(s_call.prev_root, s_call.witnesses) =
              [ok |-> TRUE, root |-> store_root(store)]
        /\ ChainLinked(s_call.witnesses, 1)

\* A batch of MaxBatch operations that changed the root has been applied on a
\* non-empty trie.
C2_Witness ==
    /\ s_call.call = "apply_batch" /\ s_call.ok
    /\ Len(s_call.witnesses) >= 2
    /\ s_call.prev_root # empty_hashes(0)
    /\ store_root(store) # s_call.prev_root
    /\ s_call.witnesses[2].old_value # None

\* The same law on the bare trie: the witnesses of the calls made since t_r0.
TrieChainLaw ==
    /\ verify_witnesses(t_r0, t_chain) = [ok |-> TRUE, root |-> root(tree)]
    /\ ChainLinked(t_chain, 1)

\* --------------------------------------------------------------- guest spec
\* Inputs: witness lists produced by a trie for a short operation sequence,
\* as the host builds them, and tampered variants of them.
GuestTriesLeaves ==
    {[k \in KeyHashes |->
        IF k = hash_key("k0") THEN a ELSE IF k = hash_key("k1") THEN b ELSE None] :
        a \in {None, Some(Account_encode(2, 0))},
        b \in {None, Some(Account_encode(1, 0))}}

GuestStateOps ==
    {OpInsert("k0", Account_encode(1, 1)), OpInsert("k1", Account_encode(2, 0)),
     OpInsert("k0", Account_encode(2, 0)), OpInsert("k2", <<7>>), OpDelete("k1")}

GuestOpSeqs == UNION {[1..n -> GuestStateOps] : n \in 0..MaxWitnesses}

HostWitnesses(leaves, ops) ==
    apply_batch([db |-> EmptyDb, tree |-> [leaves |-> leaves, cached_root |-> None],
                 transition_index |-> 0], ops, 0).witnesses

Reverse(q) == [i \in 1..Len(q) |-> q[Len(q) + 1 - i]]

Tampers == {"none", "prev_root", "reverse", "old_value", "new_value",
            "short_siblings", "long_siblings"}

Tamper(kind, input) ==
    LET ws == input.witnesses IN
    CASE kind = "none" -> input
      [] kind = "prev_root" -> [input EXCEPT !.prev_root = hash_nodes(@, @)]
      [] kind = "reverse" -> [input EXCEPT !.witnesses = Reverse(ws)]
      [] kind = "old_value" ->
            IF ws = <<>> THEN input
            ELSE [input EXCEPT !.witnesses[1].old_value = Some(Account_encode(U64_MAX, 0))]
      [] kind = "new_value" ->
            IF ws = <<>> THEN input
            ELSE [input EXCEPT !.witnesses[Len(ws)].new_value = Some(Account_encode(U64_MAX, 0))]
      [] kind = "short_siblings" ->
            IF ws = <<>> THEN input
            ELSE [input EXCEPT !.witnesses[1].siblings = Tail(@)]
      [] kind = "long_siblings" ->
            IF ws = <<>> THEN input
            ELSE [input EXCEPT !.witnesses[1].siblings = Append(@, EMPTY_HASH)]

VOp(tag, amount, key, old_value, new_value, witness_index) ==
    [op_type |-> [tag |-> tag, from |-> "k0", to |-> "k1", amount |-> amount],
     key |-> key, old_value |-> old_value, new_value |-> new_value,
     witness_index |-> witness_index]

GuestVOps ==
    {VOp("Set", 0, "k2", None, Some(<<7>>), i) : i \in {0, MaxWitnesses + 3}}
    \cup {VOp("CreateAccount", 2, "k0", o, n, 0) :
            o \in {None, Some(Account_encode(1, 0))},
            n \in {None, Some(<<7>>), Some(Account_encode(2, 0)), Some(Account_encode(2, 1))}}
    \cup {VOp("Transfer", 1, "k0", Some(Account_encode(2, 0)), n, 0) :
            n \in {Some(Account_encode(1, 1)), Some(Account_encode(2, 0))}}
    \cup {VOp("Mint", 1, "k1", Some(Account_encode(b, 0)), Some(Account_encode(c, 0)), 0) :
            b \in {1, U64_MAX}, c \in {0, 2}}
    \cup {VOp("Burn", 1, "k1", Some(Account_encode(b, 0)), Some(Account_encode(c, 0)), 0) :
            b \in {0, 2}, c \in {1, U64_MAX}}

GuestVOpLists == {<<>>} \cup {<<op>> : op \in GuestVOps}

\* The input the host builds for a batch ops applied on a trie, and what
\* reaches the guest after tampering.
HostInput(leaves, ops, public_inputs, private_inputs, vops) ==
    [prev_root |-> tree_compute_root(leaves),
     public_inputs |-> public_inputs,
     private_inputs |-> private_inputs,
     witnesses |-> HostWitnesses(leaves, ops),
     operations |-> vops]

GuestInit ==
    /\ SdkParked
    /\ SyncParked
    /\ BlobParked
    /\ LockParked
    /\ TrieParked
    /\ MapParked
    /\ NodeParked
    /\ StoreParked
    /\ VerifyParked
    /\ \E leaves \in GuestTriesLeaves, ops \in GuestOpSeqs, priv \in {<<>>, <<4>>} :
          \/ \E kind \in Tampers :
                /\ g_input = Tamper(kind, HostInput(leaves, ops, <<9>>, priv, <<>>))
                /\ g_overflow_checks = FALSE
          \/ \E vops \in GuestVOpLists \ {<<>>} :
                /\ g_input = HostInput(leaves, ops, <<9>>, priv, vops)
                /\ g_overflow_checks \in BOOLEAN
    /\ g_result = None

\* The zkVM executes the guest on g_input.
GuestRun ==
    /\ g_result = None
    /\ g_result' = Some(guest_main(g_input, g_overflow_checks))
    /\ UNCHANGED <<g_input, g_overflow_checks>>

GuestNext == GuestRun /\ UNCHANGED <<syncVars, trieVars, mapVars, storeVars, verifyVars, nodeVars, lockVars, blobVars, sdkVars>>

SpecGuest == GuestInit /\ [][GuestNext]_vars

GuestCommitted == g_result # None /\ g_result[1].committed

\* C3: the guest commits only for a witness list that chains from prev_root
\* (each witness's old root is the running root); the output carries
\* prev_root and the final running root (prev_root itself for no witnesses);
\* a witness off the running root aborts.
C3_GuestChain ==
    g_result # None =>
        LET chain == verify_witnesses(g_input.prev_root, g_input.witnesses)
        IN /\ g_result[1].committed =>
                /\ chain.ok
                /\ g_result[1].output.prev_root = g_input.prev_root
                /\ g_result[1].output.new_root = chain.root
                /\ (g_input.witnesses = <<>> =>
                        g_result[1].output.new_root = g_input.prev_root)
           /\ ~chain.ok => ~g_result[1].committed

\* A two-witness chain was accepted and moved the root.
C3_Witness ==
    /\ GuestCommitted
    /\ Len(g_input.witnesses) >= 2
    /\ g_result[1].output.new_root # g_input.prev_root

\* The private inputs a host could have put in place of the ones it sent.
PrivateInputs == {<<>>, <<4>>, <<5, 6>>}

\* C36: the guest never reads private_inputs: an input that differs from the
\* executed one only in private_inputs gives the same result (both abort, or
\* both commit the same output), executing the same input again gives the
\* same result, and among inputs that agree on prev_root, public_inputs and
\* witnesses every committed output is the same, whatever the operations.
C36_OutputIgnoresPrivateInputs ==
    g_result # None =>
        /\ \A priv \in PrivateInputs :
              guest_main([g_input EXCEPT !.private_inputs = priv], g_overflow_checks)
                  = g_result[1]
        /\ guest_main(g_input, g_overflow_checks) = g_result[1]
        /\ g_result[1].committed =>
              \A vops \in GuestVOpLists, oc \in BOOLEAN :
                  \A other \in {guest_main([g_input EXCEPT !.operations = vops,
                                                            !.private_inputs = <<>>], oc)} :
                      other.committed => other.output = g_result[1].output

C36_Witness ==
    /\ GuestCommitted
    /\ g_input.private_inputs = <<4>>
    /\ g_input.witnesses # <<>>
    /\ g_input.operations # <<>>
    /\ g_result[1].output.public_inputs_hash
           = hash_public_inputs(g_input.prev_root, g_input.public_inputs)

\* -------------------------------------------------------------- verify spec
\* The DA range holds the blobs of a chain of n transitions with sequences
\* 1..n, posted at distinct heights in any order; each carries a proof of its
\* own root pair or no proof, and the first transition may leave the root
\* unchanged.  One blob may then be tampered with.
R(i) == <<"R", i>>
OTHER_ROOT == <<"X">>
OTHER_IMAGE == <<"ELF2">>
BASE_HEIGHT == 10

\* Root after transition i of a chain whose transition noop (0: none) keeps
\* the root.
RECURSIVE ChainRoot(_, _)
ChainRoot(i, noop) ==
    IF i = 0 THEN R(0) ELSE IF i = noop THEN ChainRoot(i - 1, noop) ELSE R(i)

ChainBlob(i, noop, proved) ==
    LET prev == ChainRoot(i - 1, noop)
        new == ChainRoot(i, noop)
    IN TransitionBlobV1_new(<<1>>, i, prev, new, <<>>,
            IF i \in proved THEN ProofOf(program_hash, prev, new) ELSE <<>>,
            program_hash)

\* Orders in which n blobs land on the DA layer: the sequence order rotated
\* by r places, and its reverse.
HeightOrders(n) ==
    {[p \in 1..n |-> ((p - 1 + r) % n) + 1] : r \in 0..(n - 1)}
    \cup {[p \in 1..n |-> n + 1 - p]}

DaRange(n, perm, noop, proved) ==
    [p \in 1..n |-> [height |-> BASE_HEIGHT + p,
                     data |-> blob_encode(ChainBlob(perm[p], noop, proved))]]

\* The default program hash with every choice of the other two settings,
\* and one configuration that expects another program.
VerifyConfigs ==
    [expected_program_hash : {None},
     skip_proof_verification : BOOLEAN,
     expected_first_root : {None, Some(R(0)), Some(OTHER_ROOT)}]
    \cup {[expected_program_hash |-> Some(OTHER_IMAGE),
           skip_proof_verification |-> FALSE,
           expected_first_root |-> None]}

VerifyInit ==
    /\ SdkParked
    /\ SyncParked
    /\ BlobParked
    /\ LockParked
    /\ TrieParked
    /\ MapParked
    /\ NodeParked
    /\ StoreParked
    /\ GuestParked
    /\ \E n \in 0..MaxBlobs :
          \E perm \in HeightOrders(n), noop \in {0, 1}, proved \in SUBSET (1..n) :
              da = DaRange(n, perm, noop, proved)
    /\ v_cfg \in VerifyConfigs
    /\ v_base = None
    /\ v_tamper = NoTamper
    /\ v_result = None

TamperKinds == {"prev_root", "new_root", "sequence", "program_hash", "proof", "version"}

TamperValues(kind) ==
    CASE kind = "prev_root" -> {R(i) : i \in 0..MaxBlobs} \cup {OTHER_ROOT}
      [] kind = "new_root" -> {R(i) : i \in 0..MaxBlobs} \cup {OTHER_ROOT}
      [] kind = "sequence" -> 1..(MaxBlobs + 1)
      [] kind = "program_hash" -> {OTHER_IMAGE}
      [] kind = "proof" -> {<<>>, ProofOf(program_hash, OTHER_ROOT, OTHER_ROOT),
                            ProofOf(OTHER_IMAGE, OTHER_ROOT, OTHER_ROOT)}
      [] kind = "version" -> {2}

SetField(blob, kind, value) ==
    CASE kind = "prev_root" -> [blob EXCEPT !.prev_root = value]
      [] kind = "new_root" -> [blob EXCEPT !.new_root = value]
      [] kind = "sequence" -> [blob EXCEPT !.sequence = value]
      [] kind = "program_hash" -> [blob EXCEPT !.program_hash = value]
      [] kind = "proof" -> [blob EXCEPT !.proof = value]
      [] kind = "version" -> [blob EXCEPT !.version = value]

\* Someone posts, in place of the blob at position pos, the same blob with
\* one field changed.
DaTamper(pos, kind, value) ==
    /\ v_base = None /\ v_result = None
    /\ pos \in 1..Len(da)
    /\ LET blob == blob_decode(da[pos].data).blob
           changed == SetField(blob, kind, value)
       IN /\ changed # blob
          /\ da' = [da EXCEPT ![pos].data = blob_encode(changed)]
    /\ v_base' = Some(da)
    /\ v_tamper' = [kind |-> kind, pos |-> pos]
    /\ UNCHANGED <<v_cfg, v_result>>

\* The blob at position pos is replaced by a truncated encoding.
DaTruncate(pos) ==
    /\ v_base = None /\ v_result = None
    /\ pos \in 1..Len(da)
    /\ da' = [da EXCEPT ![pos].data = SubSeq(@, 1, 4)]
    /\ v_base' = Some(da)
    /\ v_tamper' = [kind |-> "truncate", pos |-> pos]
    /\ UNCHANGED <<v_cfg, v_result>>

\* verifier.verify_range(from, to) over the whole range.
VerifyRange ==
    /\ v_result = None
    /\ v_result' = Some(verify_range(v_cfg, da))
    /\ UNCHANGED <<da, v_cfg, v_base, v_tamper>>

VerifyNext ==
    /\ \/ \E pos \in 1..MaxBlobs, kind \in TamperKinds :
            \E value \in TamperValues(kind) : DaTamper(pos, kind, value)
       \/ \E pos \in 1..MaxBlobs : DaTruncate(pos)
       \/ VerifyRange
    /\ UNCHANGED <<syncVars, trieVars, mapVars, storeVars, guestVars, nodeVars, lockVars, blobVars, sdkVars>>

SpecVerify == VerifyInit /\ [][VerifyNext]_vars

Decoded(blobs) == decode_all(blobs, 1, <<>>)

Sorted(blobs) == sort_by_sequence(Decoded(blobs).transitions)

\* The precondition of C6 on the fetched blobs.
ProofValidOrEmpty(t) ==
    \/ t.proof = <<>>
    \/ LET out == TransitionVerifier_verify(t.proof)
       IN out.ok /\ out.prev_root = t.prev_root /\ out.new_root = t.new_root

WellChained(cfg, blobs) ==
    /\ blobs # <<>>
    /\ Decoded(blobs).ok
    /\ LET ts == Sorted(blobs)
           eph == IF cfg.expected_program_hash # None
                  THEN cfg.expected_program_hash[1] ELSE program_hash
       IN /\ \A i \in 1..Len(ts) :
                ts[i].blob.program_hash = eph /\ ProofValidOrEmpty(ts[i].blob)
          /\ (cfg.expected_first_root # None =>
                ts[1].blob.prev_root = cfg.expected_first_root[1])
          /\ \A i \in 1..(Len(ts) - 1) : ts[i + 1].blob.prev_root = ts[i].blob.new_root

\* C6: on a well-chained range verify_range returns total = n, first_root =
\* the configured root or T1.prev_root, latest_root = Tn.new_root,
\* first_sequence = T1.sequence and last_sequence = Tn.sequence, whatever the
\* order of the blobs by height.
C6_RangeSummary ==
    (v_result # None /\ WellChained(v_cfg, da)) =>
        LET ts == Sorted(da)
            n == Len(ts)
            r == v_result[1]
        IN /\ r.ok
           /\ r.total_transitions = n
           /\ r.first_root = (IF v_cfg.expected_first_root # None
                              THEN v_cfg.expected_first_root[1]
                              ELSE ts[1].blob.prev_root)
           /\ r.latest_root = ts[n].blob.new_root
           /\ r.first_sequence = ts[1].blob.sequence
           /\ r.last_sequence = ts[n].blob.sequence

\* Three chained blobs, posted out of sequence order, were verified.
C6_Witness ==
    /\ v_result # None /\ WellChained(v_cfg, da)
    /\ Len(da) >= 3
    /\ blob_decode(da[1].data).blob.sequence > blob_decode(da[2].data).blob.sequence
    /\ v_result[1].ok /\ v_result[1].latest_root = R(3)

\* ---------------------------------------------------------------- sync spec
\* The syncer reads the same DA range as a verifier with the default program
\* hash and proof verification on; v_cfg.expected_first_root is the
\* expected_prev_root it is called with.
SyncInit ==
    /\ SdkParked
    /\ BlobParked
    /\ LockParked
    /\ TrieParked
    /\ MapParked
    /\ NodeParked
    /\ StoreParked
    /\ GuestParked
    /\ \E n \in 0..MaxBlobs :
          \E perm \in HeightOrders(n), noop \in {0, 1}, proved \in SUBSET (1..n) :
              da = DaRange(n, perm, noop, proved)
    /\ v_cfg \in {c \in VerifyConfigs :
                     c.expected_program_hash = None /\ ~c.skip_proof_verification}
    /\ v_base = None
    /\ v_tamper = NoTamper
    /\ v_result = None
    /\ sync_result = None

\* syncer.sync_range(from, to, expected_prev_root) over the whole range.
SyncRange ==
    /\ sync_result = None
    /\ sync_result' = Some(sync_range(v_cfg.expected_first_root, da))
    /\ UNCHANGED verifyVars

SyncNext ==
    /\ \/ /\ sync_result = None
          /\ \/ \E pos \in 1..MaxBlobs, kind \in TamperKinds :
                   \E value \in TamperValues(kind) : DaTamper(pos, kind, value)
             \/ \E pos \in 1..MaxBlobs : DaTruncate(pos)
          /\ UNCHANGED sync_result
       \/ SyncRange
    /\ UNCHANGED <<trieVars, mapVars, storeVars, guestVars, nodeVars, lockVars, blobVars,
                   sdkVars>>

SpecSync == SyncInit /\ [][SyncNext]_vars

\* C39: on the same fetched blobs and expected first root, sync_range
\* succeeds exactly when verify_range (default program hash, proofs checked)
\* succeeds, both then report the same first_root, latest_root and number of
\* transitions, and every transition counted in transitions_verified carries
\* the expected program hash and continues the root chain.
C39_SyncMatchesVerify ==
    sync_result # None =>
        LET s == sync_result[1]
            v == verify_range(v_cfg, da)
            ts == sort_by_sequence(sync_decode_all(da, 1, <<>>, <<>>).transitions)
        IN /\ s.ok = v.ok
           /\ s.ok =>
                 /\ s.first_root = v.first_root
                 /\ s.latest_root = v.latest_root
                 /\ s.transitions_verified = v.total_transitions
                 /\ s.transitions_verified = Len(ts)
                 /\ \A i \in 1..Len(ts) :
                       /\ ts[i].blob.program_hash = program_hash
                       /\ ts[i].blob.prev_root =
                              IF i = 1 THEN s.first_root ELSE ts[i - 1].blob.new_root

\* ---------------------------------------------------------------- node spec
\* One AppNode on a data directory.  Callers hand apply_transition a batch, a
\* list of verifiable operations and inputs; the durable map, the prover and
\* the DA service may fail.
APP_ID == <<1>>

NodeBatches ==
    {<<>>,
     <<OpInsert("k0", Account_encode(2, 0))>>,
     <<OpInsert("k0", Account_encode(1, 0)), OpDelete("k0")>>,
     <<OpDelete("k1")>>}

\* No verifiable operations, or a Mint whose balances do not add up.
NodeVOpLists ==
    {<<>>,
     <<VOp("Mint", 1, "k1", Some(Account_encode(1, 0)), Some(Account_encode(0, 0)), 0)>>}

\* Where an injected fault strikes: the durable map during operation n of
\* apply_batch, step n of commit, or the prover/executor itself.
NodeFaults ==
    {[at |-> "none", n |-> 0], [at |-> "prover", n |-> 0], [at |-> "output", n |-> 0]}
    \cup {[at |-> "apply_batch", n |-> i] : i \in 1..MaxBatch}
    \cup {[at |-> "commit", n |-> j] : j \in 1..3}

NodeConfigs == [proving_enabled : BOOLEAN, celestia_enabled : BOOLEAN]

HistoryEntry(root_hash, height) == [root |-> root_hash, height |-> height]

\* AppNode::new on a data directory holding db.
AppNode_new(db) ==
    LET o == StateStore_open(db)
    IN [ok |-> o.ok, store |-> o.store,
        root_history |-> <<HistoryEntry(store_root(o.store), None)>>]

\* The AppNodeState that AppNode::new builds on an empty data directory.
NodeStart ==
    /\ n_cfg \in NodeConfigs
    /\ n_store = AppNode_new(EmptyDb).store
    /\ n_history = AppNode_new(EmptyDb).root_history
    /\ n_pc = "idle"
    /\ n_pending = NoPending
    /\ n_posted = <<>>
    /\ n_committed = <<>>
    /\ n_last = NoOutcome
    /\ n_faults = 0
    /\ n_results = <<>>

NodeInit ==
    /\ SdkParked
    /\ SyncParked
    /\ BlobParked
    /\ LockParked
    /\ TrieParked
    /\ MapParked
    /\ StoreParked
    /\ GuestParked
    /\ VerifyParked
    /\ NodeStart

\* TransitionProver::prove / execute: runs the guest; Err when the guest
\* aborts or the prover fails ("prover"). The zkVM is outside the node: a
\* faulty one may also return Ok with an output the guest did not commit
\* ("output"), which is what the node's check of the output is for.
prover_run(input, proving_enabled, overflow_checks, fault_at) ==
    LET g == guest_main(input, overflow_checks)
        output == IF fault_at = "output"
                  THEN [g.output EXCEPT !.new_root = OTHER_ROOT]
                  ELSE g.output
    IN IF fault_at = "prover" \/ ~g.committed
       THEN [ok |-> FALSE, proof_bytes |-> <<>>, output |-> NoOutput]
       ELSE [ok |-> TRUE,
             proof_bytes |-> IF proving_enabled
                             THEN ProofOf(program_hash, output.prev_root, output.new_root)
                             ELSE <<>>,
             output |-> output]

\* The check of the prover's output against the local computation.
output_mismatch_prev_only(output, prev_root, new_root) ==
    output.prev_root # prev_root

output_mismatch(output, prev_root, new_root) ==
    output.prev_root # prev_root \/ output.new_root # new_root

Outcome(ok, at, tr, height) ==
    [call |-> "apply_transition", ok |-> ok, at |-> at, ops |-> tr.ops,
     index_before |-> tr.index_before, sequence |-> tr.sequence,
     prev_root |-> tr.prev_root, new_root |-> tr.new_root,
     proof_bytes |-> tr.proof_bytes, blob |-> tr.blob, celestia_height |-> height]

\* AppNode::apply_transition from taking the write lock up to the DA post:
\* it returns there when posting is disabled, and suspends in submit_blob
\* otherwise.
ApplyTransition(ops, vops, public_inputs, overflow_checks, fault) ==
    /\ n_pc = "idle"
    /\ n_store.transition_index < MaxIndex
    /\ fault.at = "apply_batch" => fault.n <= Len(ops)
    /\ \E prev_root \in {store_root(n_store)},
          b \in {apply_batch(n_store, ops, IF fault.at = "apply_batch" THEN fault.n ELSE 0)} :
       \E c \in {commit(b.store, IF fault.at = "commit" THEN fault.n ELSE 0)} :
       \E p \in {prover_run([prev_root |-> prev_root, public_inputs |-> public_inputs,
                              private_inputs |-> <<>>, witnesses |-> b.witnesses,
                              operations |-> vops],
                             n_cfg.proving_enabled, overflow_checks, fault.at)} :
       LET sequence == n_store.transition_index + 1
           new_root == c.root
           blob == with_timestamp(
                       TransitionBlobV1_new(APP_ID, sequence, prev_root, new_root,
                                            public_inputs, p.proof_bytes, program_hash),
                       sequence)
           committed == Append(n_committed, [sequence |-> sequence, new_root |-> new_root])
           mismatch == output_mismatch(p.output, prev_root, new_root)
           fails == ~b.ok \/ ~c.ok \/ ~p.ok \/ mismatch
           aborted(root_hash) ==
               [ops |-> ops, index_before |-> n_store.transition_index,
                sequence |-> sequence,
                prev_root |-> prev_root, new_root |-> root_hash,
                proof_bytes |-> <<>>, blob |-> <<>>]
           tr == [ops |-> ops,
                  index_before |-> n_store.transition_index, sequence |-> sequence,
                  prev_root |-> prev_root, new_root |-> new_root,
                  proof_bytes |-> p.proof_bytes, blob |-> blob_encode(blob),
                  output |-> p.output]
       IN /\ fails => n_faults < MaxFaults
          /\ n_faults' = IF fails THEN n_faults + 1 ELSE n_faults
          /\ IF ~b.ok
             THEN /\ n_store' = b.store
                  /\ n_last' = Outcome(FALSE, "apply_batch", aborted(EMPTY_HASH), None)
                  /\ UNCHANGED <<n_history, n_pc, n_pending, n_committed, n_results>>
             ELSE IF ~c.ok
             THEN /\ n_store' = c.store
                  /\ n_last' = Outcome(FALSE, "commit", aborted(EMPTY_HASH), None)
                  /\ UNCHANGED <<n_history, n_pc, n_pending, n_committed, n_results>>
             ELSE IF ~p.ok
             THEN /\ n_store' = c.store
                  /\ n_committed' = committed
                  /\ n_last' = Outcome(FALSE, "prover", aborted(new_root), None)
                  /\ UNCHANGED <<n_history, n_pc, n_pending, n_results>>
             ELSE IF mismatch
             THEN /\ n_store' = c.store
                  /\ n_committed' = committed
                  /\ n_last' = Outcome(FALSE, "assert", aborted(new_root), None)
                  /\ UNCHANGED <<n_history, n_pc, n_pending, n_results>>
             ELSE IF n_cfg.celestia_enabled
             THEN /\ n_store' = c.store
                  /\ n_committed' = committed
                  /\ n_pc' = "posting"
                  /\ n_pending' = tr
                  /\ UNCHANGED <<n_history, n_last, n_results>>
             ELSE /\ n_store' = c.store
                  /\ n_committed' = committed
                  /\ n_history' = Append(n_history, HistoryEntry(new_root, None))
                  /\ n_last' = Outcome(TRUE, "none", tr, None)
                  /\ n_results' = Append(n_results, Outcome(TRUE, "none", tr, None))
                  /\ UNCHANGED <<n_pc, n_pending>>
    /\ UNCHANGED <<n_cfg, n_posted>>

\* submit_blob returns Ok(height): the blob is on the DA layer and history
\* records the height.
SubmitOk ==
    /\ n_pc = "posting"
    /\ LET height == BASE_HEIGHT + Len(n_posted) + 1
       IN /\ n_posted' = Append(n_posted, [height |-> height, data |-> n_pending.blob])
          /\ n_history' = Append(n_history, HistoryEntry(n_pending.new_root, Some(height)))
          /\ n_last' = Outcome(TRUE, "none", n_pending, Some(height))
          /\ n_results' = Append(n_results, Outcome(TRUE, "none", n_pending, Some(height)))
    /\ n_pc' = "idle"
    /\ n_pending' = NoPending
    /\ UNCHANGED <<n_cfg, n_store, n_committed, n_faults>>

\* A failed post treated as a failed transition: an error is returned and
\* history is left alone.
SubmitFail_returns_error ==
    /\ n_pc = "posting"
    /\ n_last' = Outcome(FALSE, "submit_blob", n_pending, None)
    /\ n_pc' = "idle"
    /\ n_pending' = NoPending
    /\ UNCHANGED <<n_cfg, n_store, n_history, n_posted, n_committed, n_faults, n_results>>

\* submit_blob returns Err: logged, history records no height.
SubmitFail ==
    /\ n_pc = "posting"
    /\ n_history' = Append(n_history, HistoryEntry(n_pending.new_root, None))
    /\ n_last' = Outcome(TRUE, "none", n_pending, None)
    /\ n_results' = Append(n_results, Outcome(TRUE, "none", n_pending, None))
    /\ n_pc' = "idle"
    /\ n_pending' = NoPending
    /\ UNCHANGED <<n_cfg, n_store, n_posted, n_committed, n_faults>>

\* The task running apply_transition is dropped while suspended in
\* submit_blob: the write guard is released, nothing after the await runs.
SubmitCancelled ==
    /\ n_pc = "posting"
    /\ n_faults < MaxFaults
    /\ n_faults' = n_faults + 1
    /\ n_last' = Outcome(FALSE, "cancelled", n_pending, None)
    /\ n_pc' = "idle"
    /\ n_pending' = NoPending
    /\ UNCHANGED <<n_cfg, n_store, n_history, n_posted, n_committed, n_results>>

\* The node is dropped and AppNode::new runs again on the same directory.
NodeReopen ==
    /\ n_pc = "idle"
    /\ n_faults < MaxFaults
    /\ n_faults' = n_faults + 1
    /\ LET r == AppNode_new(n_store.db)
       IN /\ r.ok
          /\ n_store' = r.store
          /\ n_history' = r.root_history
    /\ n_last' = [NoOutcome EXCEPT !.call = "new"]
    /\ UNCHANGED <<n_cfg, n_pc, n_pending, n_posted, n_committed, n_results>>

Next ==
    /\ \/ \E ops \in NodeBatches, vops \in NodeVOpLists :
            \E fault \in (IF vops = <<>> THEN NodeFaults ELSE {[at |-> "none", n |-> 0]}),
               overflow_checks \in (IF vops = <<>> THEN {FALSE} ELSE BOOLEAN) :
                ApplyTransition(ops, vops, <<9>>, overflow_checks, fault)
       \/ SubmitOk
       \/ SubmitFail
       \/ SubmitCancelled
       \/ NodeReopen
    /\ UNCHANGED <<syncVars, trieVars, mapVars, storeVars, guestVars, verifyVars, lockVars, blobVars, sdkVars>>

Spec == NodeInit /\ [][Next]_vars

(***************************************************************************)
(* Blobs and their bytes: a blob is serialized, the bytes may be cut       *)
(* short, and TransitionBlobV1::decode reads them back.                    *)
(***************************************************************************)
BlobInit ==
    /\ SdkParked
    /\ SyncParked
    /\ LockParked
    /\ TrieParked
    /\ MapParked
    /\ StoreParked
    /\ GuestParked
    /\ VerifyParked
    /\ NodeParked
    /\ \E version \in {0, SCHEMA_VERSION, 2},
          app_id \in {<<>>, <<1, 0>>},
          sequence \in {0, 1},
          prev_root \in {EMPTY_HASH, OTHER_ROOT},
          public_outputs \in {<<>>, <<0>>},
          proof \in {<<>>, ProofOf(program_hash, EMPTY_HASH, OTHER_ROOT)},
          timestamp \in {None, Some(0), Some(1)},
          sequencer_signature \in {None, Some(<<>>), Some(<<1>>)} :
             b_blob = [version |-> version, app_id |-> app_id, sequence |-> sequence,
                       prev_root |-> prev_root, new_root |-> OTHER_ROOT,
                       public_inputs |-> <<9>>, public_outputs |-> public_outputs,
                       proof |-> proof, program_hash |-> program_hash,
                       timestamp |-> timestamp,
                       sequencer_signature |-> sequencer_signature]
    /\ b_bytes = None
    /\ b_decoded = None

\* blob.encode() (bincode::serialize(&blob) for a blob of another version)
BlobEncode ==
    /\ b_bytes = None
    /\ b_bytes' = Some([data |-> blob_encode(b_blob), whole |-> TRUE])
    /\ UNCHANGED <<b_blob, b_decoded>>

\* Only the first n words of the encoding arrive.
BlobTruncate(n) ==
    /\ b_bytes # None /\ b_decoded = None
    /\ b_bytes[1].whole
    /\ n < Len(b_bytes[1].data)
    /\ b_bytes' = Some([data |-> SubSeq(b_bytes[1].data, 1, n), whole |-> FALSE])
    /\ UNCHANGED <<b_blob, b_decoded>>

\* TransitionBlobV1::decode(&bytes)
BlobDecode ==
    /\ b_bytes # None /\ b_decoded = None
    /\ b_decoded' = Some(blob_decode(b_bytes[1].data))
    /\ UNCHANGED <<b_blob, b_bytes>>

BlobNext ==
    /\ \/ BlobEncode
       \/ \E n \in 0..24 : BlobTruncate(n)
       \/ BlobDecode
    /\ UNCHANGED <<syncVars, trieVars, mapVars, storeVars, guestVars, verifyVars, nodeVars, lockVars, sdkVars>>

SpecBlob == BlobInit /\ [][BlobNext]_vars

(***************************************************************************)
(* The sdk's account helpers on a Context over an in-memory store.         *)
(***************************************************************************)
SdkInit ==
    /\ SyncParked
    /\ BlobParked
    /\ LockParked
    /\ TrieParked
    /\ MapParked
    /\ StoreParked
    /\ GuestParked
    /\ VerifyParked
    /\ NodeParked
    /\ ctx = Context_new(StateStore_in_memory)
    /\ sdk_call = NoSdkCall

Balances(c) == [a \in Accounts |-> get_balance(c, a)]

\* accounts::set_balance on a fresh context
SdkSetBalance(account, balance) ==
    /\ ctx.operations = <<>>
    /\ ctx' = set_balance(ctx, account, balance)
    /\ sdk_call' = [NoSdkCall EXCEPT !.call = "set_balance", !.to = account,
                                     !.amount = balance, !.before = Balances(ctx)]

\* accounts::transfer
SdkTransfer(from, to, amount, overflow_checks) ==
    /\ Len(ctx.operations) + 2 <= MaxCtxOps
    /\ LET r == transfer(ctx, from, to, amount, overflow_checks)
       IN /\ ctx' = r.ctx
          /\ sdk_call' = [call |-> "transfer", ok |-> r.ok, from |-> from, to |-> to,
                          amount |-> amount, before |-> Balances(ctx)]

\* ctx.into_store() and Context::new on the store
SdkNewContext ==
    /\ ctx.operations # <<>>
    /\ ctx' = Context_new(ctx.store)
    /\ sdk_call' = NoSdkCall

SdkNext ==
    /\ \/ \E account \in Accounts, balance \in 0..U64_MAX : SdkSetBalance(account, balance)
       \/ \E from \in Accounts, to \in Accounts, amount \in 0..U64_MAX,
             overflow_checks \in BOOLEAN : SdkTransfer(from, to, amount, overflow_checks)
       \/ SdkNewContext
    /\ UNCHANGED <<syncVars, trieVars, mapVars, storeVars, guestVars, verifyVars, nodeVars, lockVars, blobVars>>

SpecSdk == SdkInit /\ [][SdkNext]_vars

RECURSIVE SumOver(_, _)
SumOver(f, S) ==
    IF S = {} THEN 0
    ELSE LET a == CHOOSE x \in S : TRUE IN f[a] + SumOver(f, S \ {a})

\* C28: accounts::transfer(ctx, from, to, amount), whenever it succeeds,
\* leaves the sum of all balances unchanged, for every pair of names (from =
\* to included) and every amount; when from and to differ, from's balance
\* goes down by amount and to's goes up by amount.
C28_TransferPreservesSum ==
    (sdk_call.call = "transfer" /\ sdk_call.ok) =>
        /\ SumOver(Balances(ctx), Accounts) = SumOver(sdk_call.before, Accounts)
        /\ sdk_call.from # sdk_call.to =>
              /\ get_balance(ctx, sdk_call.from) = sdk_call.before[sdk_call.from] - sdk_call.amount
              /\ get_balance(ctx, sdk_call.to) = sdk_call.before[sdk_call.to] + sdk_call.amount

\* C25: for every blob with version = 1, whatever its fields and whether or
\* not timestamp and sequencer_signature are set, decode(encode(blob)) is
\* Ok(blob).
C25_BlobRoundTrip ==
    (b_decoded # None /\ b_bytes[1].whole /\ b_blob.version = SCHEMA_VERSION) =>
        /\ b_decoded[1].ok
        /\ b_decoded[1].blob = b_blob

\* A blob with outputs, a proof, a timestamp and a signature has been
\* encoded and decoded.
C25_Witness ==
    /\ b_decoded # None /\ b_bytes # None /\ b_bytes[1].whole
    /\ b_blob.version = SCHEMA_VERSION
    /\ b_blob.public_outputs # <<>> /\ b_blob.proof # <<>>
    /\ b_blob.timestamp # None /\ b_blob.sequencer_signature # None

\* C26: decoding the encoding of a blob whose version is v # 1 fails with
\* InvalidVersion{expected = 1, got = v} and yields no blob, whatever the
\* other fields are.
C26_OtherVersionRejected ==
    (b_decoded # None /\ b_bytes[1].whole /\ b_blob.version # 1) =>
        /\ ~b_decoded[1].ok
        /\ "blob" \notin DOMAIN b_decoded[1]
        /\ b_decoded[1].err =
              [kind |-> "InvalidVersion", expected |-> 1, got |-> b_blob.version]

\* The encoding of a well-formed blob re-serialized with version 2 has been
\* decoded.
C26_Witness ==
    /\ b_decoded # None /\ b_bytes # None /\ b_bytes[1].whole
    /\ b_blob.version = 2
    /\ b_blob.proof # <<>> /\ b_blob.timestamp # None
    /\ ~b_decoded[1].ok

(***************************************************************************)
(* The node behind its RwLock: tasks calling apply_transition (on AppNode  *)
(* or through the HTTP handler, which take the same write guard and run    *)
(* the same steps) and tasks calling the read accessors.  A guard is       *)
(* granted whenever the lock allows it; tokio's queue order is not         *)
(* modelled.                                                               *)
(***************************************************************************)
Writers == {"w1", "w2"}
Readers == {"r1", "r2"}

NoObs == [seen |-> FALSE, root |-> EMPTY_HASH, values |-> <<>>,
          transition_index |-> 0, history |-> <<>>]

\* What root(), get(), transition_index() and root_history() return under
\* one read guard.
Observe ==
    [seen |-> TRUE, root |-> store_root(n_store),
     values |-> [key \in Keys |-> get_raw(n_store, key)],
     transition_index |-> n_store.transition_index, history |-> n_history]

LockInit ==
    /\ SdkParked
    /\ SyncParked
    /\ BlobParked
    /\ TrieParked
    /\ MapParked
    /\ StoreParked
    /\ GuestParked
    /\ VerifyParked
    /\ NodeStart
    /\ lock_writer = None
    /\ lock_readers = {}
    /\ task_pc = [t \in Writers \cup Readers |-> "start"]
    /\ reader_obs = [r \in Readers |-> NoObs]

\* state.write().await returns: no guard is held by anyone.
AcquireWrite(t) ==
    /\ task_pc[t] = "start"
    /\ lock_writer = None /\ lock_readers = {}
    /\ lock_writer' = Some(t)
    /\ task_pc' = [task_pc EXCEPT ![t] = "locked"]
    /\ UNCHANGED <<nodeVars, lock_readers, reader_obs>>

\* The holder of the write guard runs apply_transition up to the DA post;
\* a call that returns or panics there drops the guard.
WriterRun(t) ==
    /\ task_pc[t] = "locked" /\ lock_writer = Some(t)
    /\ \E ops \in NodeBatches, vops \in NodeVOpLists :
         \E fault \in (IF vops = <<>> THEN NodeFaults ELSE {[at |-> "none", n |-> 0]}) :
            ApplyTransition(ops, vops, <<9>>, FALSE, fault)
    /\ IF n_pc' = "posting"
       THEN /\ task_pc' = [task_pc EXCEPT ![t] = "posting"]
            /\ UNCHANGED lock_writer
       ELSE /\ task_pc' = [task_pc EXCEPT ![t] = "start"]
            /\ lock_writer' = None
    /\ UNCHANGED <<lock_readers, reader_obs>>

WriterReturn(t) ==
    /\ task_pc[t] = "posting" /\ lock_writer = Some(t)
    /\ task_pc' = [task_pc EXCEPT ![t] = "start"]
    /\ lock_writer' = None
    /\ UNCHANGED <<lock_readers, reader_obs>>

WriterSubmitOk(t) == SubmitOk /\ WriterReturn(t)

WriterSubmitFail(t) == SubmitFail /\ WriterReturn(t)

WriterSubmitCancelled(t) == SubmitCancelled /\ WriterReturn(t)

\* state.read().await returns: no write guard is held.
AcquireRead(r) ==
    /\ task_pc[r] = "start"
    /\ lock_writer = None
    /\ lock_readers' = lock_readers \cup {r}
    /\ task_pc' = [task_pc EXCEPT ![r] = "reading"]
    /\ UNCHANGED <<nodeVars, lock_writer, reader_obs>>

\* The reader reads under its guard and drops it.
ReaderRead(r) ==
    /\ task_pc[r] = "reading" /\ r \in lock_readers
    /\ reader_obs' = [reader_obs EXCEPT ![r] = Observe]
    /\ lock_readers' = lock_readers \ {r}
    /\ task_pc' = [task_pc EXCEPT ![r] = "start"]
    /\ UNCHANGED <<nodeVars, lock_writer>>

LockNext ==
    /\ \/ \E t \in Writers : AcquireWrite(t)
       \/ \E t \in Writers : WriterRun(t)
       \/ \E t \in Writers : WriterSubmitOk(t)
       \/ \E t \in Writers : WriterSubmitFail(t)
       \/ \E t \in Writers : WriterSubmitCancelled(t)
       \/ \E r \in Readers : AcquireRead(r)
       \/ \E r \in Readers : ReaderRead(r)
    /\ UNCHANGED <<syncVars, trieVars, mapVars, storeVars, guestVars, verifyVars, blobVars, sdkVars>>

SpecLock == LockInit /\ [][LockNext]_vars

\* C10: whenever no transition is in progress, history has exactly
\* transition_index + 1 entries, entry 0 is the genesis (empty-trie) root
\* with no DA height, and entry s holds the new_root of every committed
\* transition with sequence s; after successful and failed apply_transition
\* calls and after reopening the node on its data directory.
C10_HistoryInStep ==
    n_pc = "idle" =>
        /\ Len(n_history) = n_store.transition_index + 1
        /\ n_history[1] = HistoryEntry(empty_hashes(0), None)
        /\ \A i \in 1..Len(n_committed) :
              /\ n_committed[i].sequence + 1 <= Len(n_history)
              /\ n_history[n_committed[i].sequence + 1].root = n_committed[i].new_root

\* C11: a transition is assigned sequence = transition_index + 1 as read
\* when it took the write lock; when it succeeds, the returned sequence is
\* transition_index() right after the call; and the transitions that succeed
\* carry strictly increasing sequence numbers in lock order.
C11_SequenceOrder ==
    /\ n_pc = "posting" =>
          /\ n_pending.sequence = n_pending.index_before + 1
          /\ n_pending.sequence = n_store.transition_index
    /\ n_pc = "idle" /\ n_last.call = "apply_transition" =>
          /\ n_last.sequence = n_last.index_before + 1
          /\ n_last.ok => n_last.sequence = n_store.transition_index
    /\ \A i \in 1..Len(n_results) :
          /\ n_results[i].sequence = n_results[i].index_before + 1
          /\ i > 1 => n_results[i - 1].sequence < n_results[i].sequence

\* Two transitions succeeded with a failed call between them.
C11_Witness ==
    /\ Len(n_results) >= 2
    /\ n_faults >= 1
    /\ n_last.ok /\ n_last.call = "apply_transition"
    /\ n_last.sequence = n_store.transition_index

\* C35: the blobs of the successful apply_transition calls of one node, in
\* order, form a chain: the first blob's prev_root is the root the node
\* started with, each next blob's prev_root is the previous blob's new_root
\* and its sequence the previous sequence plus 1, failed calls in between or
\* not.
C35_BlobsChain ==
    \A i \in 1..Len(n_results) :
        LET blob == blob_decode(n_results[i].blob).blob
        IN IF i = 1
           THEN blob.prev_root = root(SparseMerkleTree_new)
           ELSE LET before == blob_decode(n_results[i - 1].blob).blob
                IN /\ blob.prev_root = before.new_root
                   /\ blob.sequence = before.sequence + 1

\* A step in which apply_transition, called with a batch that leaves every
\* stored value as it was, gets past its proof check: it returns Ok there
\* when posting is disabled and goes on to submit_blob otherwise.
NoopAccepted ==
    /\ n_pc = "idle"
    /\ (n_pc' = "posting" \/ Len(n_results') = Len(n_results) + 1)
    /\ LET tr == IF n_pc' = "posting" THEN n_pending' ELSE n_last'
       IN apply_batch(n_store, tr.ops, 0).store.tree.leaves = n_store.tree.leaves

\* A step in which apply_transition returns Ok after submit_blob.
PostedReturn ==
    /\ n_pc = "posting"
    /\ Len(n_results') = Len(n_results) + 1

\* C40: an apply_transition that returns Ok for a batch that changes nothing
\* (an empty batch, a delete of an absent key, a re-insert of the stored
\* value) is a transition like any other: transition_index and the sequence
\* advance by 1, the blob has prev_root = new_root = the unchanged root, and
\* one history entry carrying that root is appended.
C40_NoopBatchCommits ==
    [][/\ NoopAccepted =>
             LET tr == IF n_pc' = "posting" THEN n_pending' ELSE n_last'
                 blob == blob_decode(tr.blob).blob
             IN /\ n_store'.transition_index = n_store.transition_index + 1
                /\ tr.sequence = n_store.transition_index + 1
                /\ blob.sequence = tr.sequence
                /\ store_root(n_store') = store_root(n_store)
                /\ blob.prev_root = store_root(n_store)
                /\ blob.new_root = store_root(n_store)
                /\ n_pc' = "idle" =>
                       n_history' = Append(n_history,
                                           HistoryEntry(store_root(n_store), None))
                /\ n_pc' = "posting" => n_history' = n_history
       /\ PostedReturn =>
             /\ n_last'.blob = n_pending.blob
             /\ n_store' = n_store
             /\ n_history' = Append(n_history,
                                    HistoryEntry(n_pending.new_root,
                                                 n_last'.celestia_height))]_vars

\* Two calls returned Ok after posting: the second re-inserted the value the
\* first had stored, took sequence 2 and left a second history entry with
\* the same root.
C40_Witness ==
    /\ Len(n_results) = 2
    /\ n_results[2].ops = n_results[1].ops
    /\ n_results[2].ops = <<OpInsert("k0", Account_encode(2, 0))>>
    /\ n_results[2].sequence = 2 /\ n_store.transition_index = 2
    /\ n_results[2].prev_root = n_results[2].new_root
    /\ n_results[2].celestia_height # None
    /\ Len(n_history) = 3
    /\ n_history[3].root = n_history[2].root
    /\ n_history[2].root # n_history[1].root

\* A step in which a call of apply_transition returns an error (or panics)
\* before the DA post.
FailedCall ==
    /\ n_pc = "idle" /\ n_pc' = "idle"
    /\ n_faults' = n_faults + 1
    /\ n_last'.call = "apply_transition" /\ ~n_last'.ok
    /\ n_last'.at \in {"apply_batch", "commit", "prover", "assert"}

\* C12: a call of apply_transition that fails at apply_batch, at commit, in
\* the prover or executor, or at the check of the prover's output leaves
\* root(), the value of every key, transition_index() and history as they
\* were before the call.
C12_FailureRollsBack ==
    [][FailedCall =>
          /\ store_root(n_store') = store_root(n_store)
          /\ \A key \in Keys : get_raw(n_store', key) = get_raw(n_store, key)
          /\ n_store'.transition_index = n_store.transition_index
          /\ n_history' = n_history]_vars

\* A step in which submit_blob returns an error to a transition that was
\* suspended in it: the call ends, nothing was posted, the task was not
\* dropped.
SubmitFailedStep ==
    /\ n_pc = "posting" /\ n_pc' = "idle"
    /\ n_posted' = n_posted
    /\ n_faults' = n_faults

\* C13: with DA posting enabled, a failing submit_blob leaves apply_transition
\* successful: the store stays as committed, exactly one entry
\* (new_root, None) is appended to history, and the result has
\* celestia_height = None with the sequence, prev_root and new_root of the
\* result of a successful post.
C13_SubmitFailureSkipped ==
    [][SubmitFailedStep =>
          /\ n_cfg.celestia_enabled
          /\ n_last'.call = "apply_transition" /\ n_last'.ok
          /\ n_store' = n_store
          /\ n_store'.transition_index = n_pending.sequence
          /\ store_root(n_store') = n_pending.new_root
          /\ n_store'.db[TRANSITION_INDEX_KEY] = Some(<<n_pending.sequence>>)
          /\ n_store'.db[MERKLE_TREE_KEY] = Some(tree_serialize(n_store'.tree))
          /\ n_history' = Append(n_history, HistoryEntry(n_pending.new_root, None))
          /\ n_last'.celestia_height = None
          /\ \A height \in 1..(BASE_HEIGHT + MaxIndex) :
                LET posted == Outcome(TRUE, "none", n_pending, Some(height))
                IN /\ n_last'.sequence = posted.sequence
                   /\ n_last'.prev_root = posted.prev_root
                   /\ n_last'.new_root = posted.new_root
                   /\ n_last'.proof_bytes = posted.proof_bytes
                   /\ n_last'.blob = posted.blob]_vars

\* A transition whose post failed has returned: posting is enabled, the last
\* call succeeded without a DA height, and history ends with its new root.
C13_Witness ==
    /\ n_cfg.celestia_enabled
    /\ n_pc = "idle"
    /\ n_last.call = "apply_transition" /\ n_last.ok
    /\ n_last.celestia_height = None
    /\ n_last.new_root # n_last.prev_root
    /\ n_history[Len(n_history)] = HistoryEntry(n_last.new_root, None)

\* A step in which a transition reaches the DA post: its blob is encoded and
\* handed to submit_blob.
ReachesPosting == n_pc = "idle" /\ n_pc' = "posting"

\* A step in which a call ends at the check of the prover's output.
OutputMismatchStep ==
    /\ n_pc = "idle"
    /\ n_faults' = n_faults + 1
    /\ n_last'.call = "apply_transition" /\ n_last'.at = "assert"

\* C14: a transition reaches the DA post only with a prover or executor
\* output whose (prev_root, new_root) is the locally computed pair, and only
\* a transition that reached the post is ever submitted; a call that ends on
\* a mismatch returns an error without reaching the post, submits nothing
\* and appends nothing to history.
C14_NoBlobOnMismatch ==
    [][/\ ReachesPosting =>
             /\ n_pending'.output.prev_root = n_pending'.prev_root
             /\ n_pending'.output.new_root = n_pending'.new_root
             /\ n_pending'.prev_root = store_root(n_store)
             /\ n_pending'.new_root = store_root(n_store')
       /\ n_posted' # n_posted =>
             /\ n_pc = "posting"
             /\ Len(n_posted') = Len(n_posted) + 1
             /\ n_posted'[Len(n_posted')].data = n_pending.blob
             /\ blob_decode(n_pending.blob).ok
             /\ blob_decode(n_pending.blob).blob.prev_root = n_pending.output.prev_root
             /\ blob_decode(n_pending.blob).blob.new_root = n_pending.output.new_root
       /\ OutputMismatchStep =>
             /\ ~n_last'.ok
             /\ n_pc' = "idle"
             /\ n_pending' = NoPending
             /\ n_posted' = n_posted
             /\ n_history' = n_history]_vars

\* A call has just ended on an output mismatch on a node that posts to the
\* DA layer and that has posted an earlier transition.
C14_Witness ==
    /\ n_cfg.celestia_enabled
    /\ n_pc = "idle"
    /\ n_last.call = "apply_transition" /\ n_last.at = "assert" /\ ~n_last.ok
    /\ Len(n_posted) = 1
    /\ Len(n_history) = 2

\* Transitions between the start of apply_batch and their history append.
InTransition == {t \in Writers : task_pc[t] \in {"locked", "posting"}}

\* The state a reader saw is one between whole transitions: its root is the
\* last root history records and history has an entry for every committed
\* transition.
BetweenTransitions(obs) ==
    /\ Len(obs.history) = obs.transition_index + 1
    /\ obs.history[Len(obs.history)].root = obs.root

\* C15: with concurrent writers and readers on one node, at most one
\* transition is between the start of apply_batch and its history append,
\* and no reader observes a batch that is partially applied or that is
\* committed but not yet recorded in history.
C15_WritersSerializedReadersClean ==
    /\ Cardinality(InTransition) <= 1
    /\ lock_writer # None => lock_readers = {}
    /\ \A r \in Readers : reader_obs[r].seen => BetweenTransitions(reader_obs[r])

\* A step in which the task running apply_transition is dropped while it is
\* suspended in submit_blob.
CancelledStep ==
    /\ n_pc = "posting" /\ n_pc' = "idle"
    /\ n_faults' = n_faults + 1

\* C16: a transition cancelled during the DA submit stays recorded: history
\* gets an entry (new_root, None) for its sequence, and history that was in
\* step with the transition index before the call is in step after it.
C16_CancelledStaysRecorded ==
    [][CancelledStep =>
          /\ Len(n_history') = Len(n_history) + 1
          /\ n_history'[Len(n_history')] = HistoryEntry(n_pending.new_root, None)
          /\ Len(n_history) = n_pending.index_before + 1 =>
                Len(n_history') = n_store'.transition_index + 1]_vars

\* The value the last operation of ops on key writes: Some(value) for an
\* Insert, None for a Delete; NotWritten when no operation names the key.
NotWritten == <<"not written">>

RECURSIVE LastWrite(_, _, _)
LastWrite(ops, key, n) ==
    IF n = 0 THEN NotWritten
    ELSE IF ops[n].key = key
    THEN (IF ops[n].op = "Insert" THEN Some(ops[n].value) ELSE None)
    ELSE LastWrite(ops, key, n - 1)

TamperedBefore == blob_decode(v_base[1][v_tamper.pos].data).blob
TamperedNow == blob_decode(da[v_tamper.pos].data).blob

RootTampered ==
    /\ v_result # None /\ v_base # None
    /\ v_tamper.kind \in {"prev_root", "new_root"}
    /\ verify_range(v_cfg, v_base[1]).ok

FailsChainOrProof ==
    /\ ~v_result[1].ok
    /\ v_result[1].kind \in {"RootChainBroken", "ProofInvalid"}

\* C7 as claimed: changing the prev_root or new_root of any single blob of an
\* accepted range (first, middle or last, expected_first_root configured or
\* not, proof empty or not) makes verify_range fail with RootChainBroken or
\* ProofInvalid.  Stated for a verifier that does not skip proof verification.
C7_AnyRootChangeDetected ==
    (RootTampered /\ ~v_cfg.skip_proof_verification) => FailsChainOrProof

\* The change is one the verifier checks: the blob carries a proof that is
\* verified, or the changed root is compared with a neighbour or with the
\* configured first root.
RootChangeChecked ==
    LET b == TamperedBefore
        seqs == {Sorted(v_base[1])[i].blob.sequence : i \in 1..Len(da)}
        is_first == \A q \in seqs : b.sequence <= q
        is_last == \A q \in seqs : q <= b.sequence
    IN \/ b.proof # <<>> /\ ~v_cfg.skip_proof_verification
       \/ v_tamper.kind = "prev_root" /\ (~is_first \/ v_cfg.expected_first_root # None)
       \/ v_tamper.kind = "new_root" /\ ~is_last

\* C7 (amended): changing the prev_root or new_root of a single blob of an
\* accepted range makes verify_range fail with RootChainBroken or
\* ProofInvalid whenever the blob carries a non-empty proof that is verified,
\* or the changed root is the prev_root of a blob that is not the first (or
\* of the first with expected_first_root configured), or the new_root of a
\* blob that is not the last.
C7_CheckedRootChangeDetected ==
    (RootTampered /\ RootChangeChecked) => FailsChainOrProof

\* The new_root of the last blob of a proved three-blob range was changed
\* and the proof check caught it.
C7_Witness ==
    /\ RootTampered /\ RootChangeChecked
    /\ Len(da) >= 3
    /\ v_tamper.kind = "new_root"
    /\ TamperedBefore.sequence = Len(da)
    /\ v_result[1].kind = "ProofInvalid"

\* The running root verify_range holds when it comes to the i-th transition
\* in sequence order.
RunningRoot(cfg, ts, i) ==
    IF i = 1
    THEN (IF cfg.expected_first_root # None
          THEN cfg.expected_first_root[1] ELSE ts[1].blob.prev_root)
    ELSE ts[i - 1].blob.new_root

ProofPasses(cfg, t) ==
    \/ cfg.skip_proof_verification
    \/ ProofValidOrEmpty(t)

ExpectedProgramHash(cfg) ==
    IF cfg.expected_program_hash # None THEN cfg.expected_program_hash[1]
    ELSE program_hash

\* verify_range gets as far as the continuity check of transition i and
\* finds its prev_root off the running root.
ReachesBrokenLink(cfg, ts, i) ==
    /\ \A j \in 1..(i - 1) :
          /\ ts[j].blob.program_hash = ExpectedProgramHash(cfg)
          /\ ts[j].blob.prev_root = RunningRoot(cfg, ts, j)
          /\ ProofPasses(cfg, ts[j].blob)
    /\ ts[i].blob.program_hash = ExpectedProgramHash(cfg)
    /\ ts[i].blob.prev_root # RunningRoot(cfg, ts, i)

\* C8: when verify_range reaches a blob whose prev_root differs from the
\* running root it returns RootChainBroken with that blob's sequence,
\* expected = the running root and actual = the blob's prev_root, and no
\* VerificationResult.
C8_RootChainBroken ==
    (v_result # None /\ da # <<>> /\ Decoded(da).ok) =>
        LET ts == Sorted(da) IN
        \A i \in 1..Len(ts) :
            ReachesBrokenLink(v_cfg, ts, i) =>
                v_result[1] = VerifyErr("RootChainBroken", ts[i].blob.sequence,
                                        hex_encode(RunningRoot(v_cfg, ts, i)),
                                        hex_encode(ts[i].blob.prev_root))

\* A blob after the first met a predecessor whose new_root it does not
\* continue, and verify_range reported the broken link.
C8_Witness ==
    /\ v_result # None /\ ~v_result[1].ok
    /\ v_result[1].kind = "RootChainBroken"
    /\ v_result[1].sequence >= 2
    /\ v_result[1].expected # v_result[1].actual

\* The first transition in sequence order whose program hash is not the
\* expected one is the i-th.
FirstWrongProgram(cfg, ts, i) ==
    /\ ts[i].blob.program_hash # ExpectedProgramHash(cfg)
    /\ \A j \in 1..(i - 1) : ts[j].blob.program_hash = ExpectedProgramHash(cfg)

\* C29 as stated: verify_range returns ProgramHashMismatch{sequence} for
\* the first blob in sequence order whose program_hash differs from the
\* expected hash.
C29_FirstWrongProgramReported ==
    (v_result # None /\ da # <<>> /\ Decoded(da).ok) =>
        LET ts == Sorted(da) IN
        \A i \in 1..Len(ts) :
            FirstWrongProgram(v_cfg, ts, i) =>
                v_result[1] = VerifyErr("ProgramHashMismatch", ts[i].blob.sequence, <<>>, <<>>)

\* Every transition before the i-th passes its continuity and proof checks.
PassesBefore(cfg, ts, i) ==
    \A j \in 1..(i - 1) :
        /\ ts[j].blob.prev_root = RunningRoot(cfg, ts, j)
        /\ ProofPasses(cfg, ts[j].blob)

\* C29 (amended): when all blobs decode and every blob before it in sequence
\* order passes its continuity and proof checks, verify_range returns
\* ProgramHashMismatch{sequence} for the first blob in sequence order whose
\* program_hash differs from the expected hash, whether or not that blob's
\* prev_root continues the running root and whatever its proof is.
C29_WrongProgramReportedWhenReached ==
    (v_result # None /\ da # <<>> /\ Decoded(da).ok) =>
        LET ts == Sorted(da) IN
        \A i \in 1..Len(ts) :
            (FirstWrongProgram(v_cfg, ts, i) /\ PassesBefore(v_cfg, ts, i)) =>
                v_result[1] = VerifyErr("ProgramHashMismatch", ts[i].blob.sequence, <<>>, <<>>)

\* A blob with a wrong program hash whose prev_root is also off the running
\* root was reported as ProgramHashMismatch.
C29_Witness ==
    /\ v_result # None /\ da # <<>> /\ Decoded(da).ok
    /\ ~v_result[1].ok /\ v_result[1].kind = "ProgramHashMismatch"
    /\ \E i \in 1..Len(da) :
          /\ FirstWrongProgram(v_cfg, Sorted(da), i)
          /\ PassesBefore(v_cfg, Sorted(da), i)
          /\ Sorted(da)[i].blob.prev_root # RunningRoot(v_cfg, Sorted(da), i)
          /\ Sorted(da)[i].blob.sequence = v_result[1].sequence

\* The sequences of the transitions of ts that carry no proof, in the order
\* of ts.
RECURSIVE EmptyProofSequences(_)
EmptyProofSequences(ts) ==
    IF ts = <<>> THEN <<>>
    ELSE (IF Head(ts).blob.proof = <<>> THEN <<Head(ts).blob.sequence>> ELSE <<>>)
            \o EmptyProofSequences(Tail(ts))

\* C30: on success the unverified list of verify_range holds exactly the
\* sequences of the blobs whose proof is empty, in sequence order; a blob
\* with an empty proof still advances the running root to its new_root (the
\* next blob continues from it, the last one's is latest_root) and is counted
\* in total.
C30_UnverifiedListed ==
    (v_result # None /\ v_result[1].ok) =>
        LET ts == Sorted(da)
            r == v_result[1]
        IN /\ r.unverified_transitions = EmptyProofSequences(ts)
           /\ r.total_transitions = Len(ts)
           /\ \A i \in 1..Len(ts) :
                 ts[i].blob.proof = <<>> =>
                     IF i < Len(ts) THEN ts[i + 1].blob.prev_root = ts[i].blob.new_root
                     ELSE r.latest_root = ts[i].blob.new_root

\* Three blobs posted out of sequence order were accepted: the second one
\* proved, the first and the last without a proof.
C30_Witness ==
    /\ v_result # None /\ v_result[1].ok
    /\ Len(da) = 3
    /\ ~v_cfg.skip_proof_verification
    /\ blob_decode(da[1].data).blob.sequence > blob_decode(da[2].data).blob.sequence
    /\ v_result[1].unverified_transitions = <<1, 3>>
    /\ Sorted(da)[2].blob.proof # <<>>
    /\ v_result[1].latest_root = Sorted(da)[3].blob.new_root
    /\ Sorted(da)[3].blob.new_root # Sorted(da)[3].blob.prev_root

\* C38: in every VerificationResult height_range = (lo, hi) has lo <= hi and
\* the DA height of every blob of the range lies between lo and hi, also
\* when the blobs were included in an order other than their sequence order.
C38_HeightRangeCovers ==
    (v_result # None /\ v_result[1].ok) =>
        LET lo == v_result[1].height_range[1]
            hi == v_result[1].height_range[2]
        IN /\ lo <= hi
           /\ \A p \in 1..Len(da) : lo <= da[p].height /\ da[p].height <= hi

\* C31: when any fetched blob fails to decode (cut-off bytes or a version
\* other than 1), verify_range returns BlobDecode and no VerificationResult,
\* whatever the other blobs are.
C31_UndecodableBlobAborts ==
    (v_result # None /\ \E pos \in 1..Len(da) : ~blob_decode(da[pos].data).ok) =>
        /\ ~v_result[1].ok
        /\ v_result[1].kind = "BlobDecode"
        /\ "total_transitions" \notin DOMAIN v_result[1]

\* The last of three blobs was replaced by one that does not decode, the
\* other two still form an accepted chain, and the range was verified.
C31_Witness ==
    /\ v_result # None /\ Len(da) = 3
    /\ v_tamper.pos = 3 /\ v_tamper.kind \in {"truncate", "version"}
    /\ ~blob_decode(da[3].data).ok
    /\ verify_range(v_cfg, SubSeq(da, 1, 2)).ok
    /\ ~v_result[1].ok

HasDuplicateSequence(blobs) ==
    \E i, j \in 1..Len(blobs) :
        /\ i # j
        /\ blob_decode(blobs[i].data).blob.sequence = blob_decode(blobs[j].data).blob.sequence

\* C9: a range in which two decoded blobs carry the same sequence number is
\* never verified successfully.
C9_DuplicateSequenceFails ==
    (v_result # None /\ Decoded(da).ok /\ HasDuplicateSequence(da)) => ~v_result[1].ok

\* Operation i of the input, read as the claim reads a transfer: the sender's
\* (old, new) accounts are the operation's values, the receiver's are those
\* of the witness for the key `to` (an absent old account being the default
\* account).
TransferPredicate(op, witnesses) ==
    /\ op.old_value # None /\ op.new_value # None
    /\ Account_decode(op.old_value[1]) # None
    /\ Account_decode(op.new_value[1]) # None
    /\ LET old == Account_decode(op.old_value[1])[1]
           new == Account_decode(op.new_value[1])[1]
       IN /\ old.balance >= op.op_type.amount
          /\ new.balance = old.balance - op.op_type.amount
          /\ new.nonce = old.nonce + 1
    /\ \E i \in 1..Len(witnesses) :
          /\ witnesses[i].key = hash_key(op.op_type.to)
          /\ witnesses[i].new_value # None
          /\ Account_decode(witnesses[i].new_value[1]) # None
          /\ (witnesses[i].old_value # None =>
                Account_decode(witnesses[i].old_value[1]) # None)
          /\ LET old == IF witnesses[i].old_value = None
                        THEN [balance |-> 0, nonce |-> 0]
                        ELSE Account_decode(witnesses[i].old_value[1])[1]
                 new == Account_decode(witnesses[i].new_value[1])[1]
             IN /\ new.balance = old.balance + op.op_type.amount
                /\ new.nonce = old.nonce

\* C4: the guest commits an output for an input with a Transfer operation
\* only if the transfer predicate holds for it; a Transfer for which it is
\* false aborts the proof.
C4_TransferEnforced ==
    GuestCommitted =>
        \A i \in 1..Len(g_input.operations) :
            g_input.operations[i].op_type.tag = "Transfer" =>
                TransferPredicate(g_input.operations[i], g_input.witnesses)

\* C23: the guest commits an output for an input with a CreateAccount
\* operation only if the operation's new_value decodes as an account with
\* balance = initial_balance and nonce = 0 and its old_value is None.
C23_CreateAccountFresh ==
    GuestCommitted =>
        \A i \in 1..Len(g_input.operations) :
            LET op == g_input.operations[i] IN
            op.op_type.tag = "CreateAccount" =>
                /\ op.new_value # None
                /\ Account_decode(op.new_value[1]) # None
                /\ Account_decode(op.new_value[1])[1].balance = op.op_type.amount
                /\ Account_decode(op.new_value[1])[1].nonce = 0
                /\ op.old_value = None

\* C24: the guest commits an output for an input with a Mint operation only
\* if old and new value decode as accounts with
\* new.balance = old.balance + amount over the integers (no wrap-around at
\* 64 bits).
C24_MintExact ==
    GuestCommitted =>
        \A i \in 1..Len(g_input.operations) :
            LET op == g_input.operations[i] IN
            op.op_type.tag = "Mint" =>
                /\ op.old_value # None /\ op.new_value # None
                /\ Account_decode(op.old_value[1]) # None
                /\ Account_decode(op.new_value[1]) # None
                /\ Account_decode(op.new_value[1])[1].balance =
                      Account_decode(op.old_value[1])[1].balance + op.op_type.amount

\* C5: in every accepted input each verifiable operation is bound to the
\* witness at its witness_index: the index is in range and the operation's
\* (old_value, new_value) are that witness's.
C5_WitnessIndexBinds ==
    GuestCommitted =>
        \A i \in 1..Len(g_input.operations) :
            LET op == g_input.operations[i] IN
            /\ op.witness_index < Len(g_input.witnesses)
            /\ g_input.witnesses[op.witness_index + 1].old_value = op.old_value
            /\ g_input.witnesses[op.witness_index + 1].new_value = op.new_value

\* C1: every insert/delete returns a witness whose compute_old_root is the
\* root right before the call and whose compute_new_root is the root right
\* after it.
C1_WitnessRoots ==
    t_witness # None =>
        /\ compute_old_root(t_witness[1]) = t_root_before
        /\ compute_new_root(t_witness[1]) = root(tree)

\* An update of a key that shares a path prefix with another present key
\* has been witnessed.
C1_Witness ==
    /\ t_witness # None
    /\ t_witness[1].old_value # None
    /\ Cardinality(Present(tree.leaves)) >= 2
    /\ t_root_before # root(tree)

====
